---- MODULE Spec2Model ----
(***************************************************************************)
(* Model of the ExclusionParser library: the line-oriented parser          *)
(* (ExclusionParser.cpp), the data model (ExclusionTypes.h), the writer    *)
(* (ExclusionWriter.cpp) and the data manager (ExclusionData.cpp).         *)
(*                                                                         *)
(* A std::string is a sequence of one-character strings.  Positions are    *)
(* 0-based as in the C++ code; npos is the constant NPOS.                  *)
(***************************************************************************)
EXTENDS Integers, Sequences, FiniteSets, TLC

(***************************************************************************)
(* std::string primitives                                                  *)
(***************************************************************************)

\* std::string::npos: larger than every length the model can build.
NPOS == 1000000

Min2(a, b) == IF a <= b THEN a ELSE b

SetMin(S) == CHOOSE x \in S : \A y \in S : x <= y

SetMax(S) == CHOOSE x \in S : \A y \in S : x >= y

\* the least element of S, or d when S is empty
MinOr(S, d) == IF S = {} THEN d ELSE SetMin(S)

\* the greatest element of S, or d when S is empty
MaxOr(S, d) == IF S = {} THEN d ELSE SetMax(S)

\* a local variable of the source: e is evaluated, then F applied to its value
Let(e, F(_)) == CHOOSE r \in { F(v) : v \in { e } } : TRUE

\* size_t subtraction a - b: an underflow wraps to a huge value.
SubU(a, b) == IF a >= b THEN a - b ELSE NPOS

\* s.substr(pos, n) for pos <= s.size(); n may be NPOS ("to the end").
Substr(s, pos, n) == SubSeq(s, pos + 1, Min2(Len(s), pos + n))

\* s.substr(pos)
SubstrFrom(s, pos) == SubSeq(s, pos + 1, Len(s))

\* does sub occur in s at 0-based position i
OccursAt(s, sub, i) ==
    /\ i + Len(sub) <= Len(s)
    /\ \A j \in 1..Len(sub) : s[i + j] = sub[j]

\* s.find(sub, from): lowest position >= from where sub occurs, else npos.
Find(s, sub, from) ==
    MinOr({ i \in from..(Len(s) - Len(sub)) : OccursAt(s, sub, i) }, NPOS)

\* s.rfind(sub): highest position where sub occurs, else npos.
RFind(s, sub) ==
    MaxOr({ i \in 0..(Len(s) - Len(sub)) : OccursAt(s, sub, i) }, NPOS)

\* s.find(sub) == 0
StartsWith(s, sub) == OccursAt(s, sub, 0)

\* the characters trim() strips and operator>> skips
IsSpace(c) == c \in {" ", "\t", "\r", "\n"}

IsDigit(c) == c \in {"0", "1", "2", "3", "4", "5", "6", "7", "8", "9"}

QUOTE == "\""

\* ExclusionParser::trim
trim(str) ==
    Let({ i \in 1..Len(str) : ~IsSpace(str[i]) }, LAMBDA keep :
        IF keep = {} THEN << >> ELSE SubSeq(str, SetMin(keep), SetMax(keep)))

\* ExclusionParser::isComment; Divider is the 50-character run of '='.
Divider == [i \in 1..50 |-> "="]

isComment(line) == StartsWith(line, <<"/", "/">>) \/ StartsWith(line, Divider)

\* ExclusionParser::extractQuotedString: [text, pos]
extractQuotedString(line, startPos) ==
    Let(Find(line, <<QUOTE>>, startPos), LAMBDA quoteStart :
        IF quoteStart = NPOS THEN [text |-> << >>, pos |-> Len(line)]
        ELSE Let(Find(line, <<QUOTE>>, quoteStart + 1), LAMBDA quoteEnd :
                 IF quoteEnd = NPOS THEN [text |-> << >>, pos |-> Len(line)]
                 ELSE [text |-> Substr(line, quoteStart + 1, quoteEnd - quoteStart - 1),
                       pos  |-> quoteEnd + 1]))

\* std::istringstream >> word: the n-th whitespace-separated token of line
\* (n = 1 is the keyword), empty when there is none.
TokenStart(line, from) ==
    MinOr({ i \in from..(Len(line) - 1) : ~IsSpace(line[i + 1]) }, NPOS)

TokenEnd(line, from) ==
    MinOr({ i \in from..(Len(line) - 1) : IsSpace(line[i + 1]) }, Len(line))

SecondToken(line) ==
    Let(TokenStart(line, 0), LAMBDA s1 :
    Let(IF s1 = NPOS THEN NPOS ELSE TokenEnd(line, s1), LAMBDA e1 :
    Let(IF e1 = NPOS THEN NPOS ELSE TokenStart(line, e1), LAMBDA s2 :
        IF s2 = NPOS THEN << >> ELSE Substr(line, s2, TokenEnd(line, s2) - s2))))

(***************************************************************************)
(* String literals of the parser and the writer                            *)
(***************************************************************************)

\* "Generated By User:"
K_GeneratedBy == <<"G", "e", "n", "e", "r", "a", "t", "e", "d", " ", "B", "y", " ", "U", "s", "e", "r", ":">>

\* "Format Version:"
K_FormatVersion == <<"F", "o", "r", "m", "a", "t", " ", "V", "e", "r", "s", "i", "o", "n", ":">>

\* "Date:"
K_Date == <<"D", "a", "t", "e", ":">>

\* "ExclMode:"
K_ExclMode == <<"E", "x", "c", "l", "M", "o", "d", "e", ":">>

\* "CHECKSUM:"
K_CHECKSUM == <<"C", "H", "E", "C", "K", "S", "U", "M", ":">>

\* "INSTANCE:"
K_INSTANCE == <<"I", "N", "S", "T", "A", "N", "C", "E", ":">>

\* "MODULE:"
K_MODULE == <<"M", "O", "D", "U", "L", "E", ":">>

\* "ANNOTATION:"
K_ANNOTATION == <<"A", "N", "N", "O", "T", "A", "T", "I", "O", "N", ":">>

\* "ANNOTATION_BEGIN:"
K_ANNOTATION_BEGIN == <<"A", "N", "N", "O", "T", "A", "T", "I", "O", "N", "_", "B", "E", "G", "I", "N", ":">>

\* "ANNOTATION_END"
K_ANNOTATION_END == <<"A", "N", "N", "O", "T", "A", "T", "I", "O", "N", "_", "E", "N", "D">>

\* "Block "
K_Block == <<"B", "l", "o", "c", "k", " ">>

\* "Toggle "
K_Toggle == <<"T", "o", "g", "g", "l", "e", " ">>

\* "Fsm "
K_Fsm == <<"F", "s", "m", " ">>

\* "Condition "
K_Condition == <<"C", "o", "n", "d", "i", "t", "i", "o", "n", " ">>

\* "Transition "
K_Transition == <<"T", "r", "a", "n", "s", "i", "t", "i", "o", "n", " ">>

\* "0to1 "
K_0to1 == <<"0", "t", "o", "1", " ">>

\* "0to1 " where "1to0 " is meant
K_1to0ReadAsUp == <<"0", "t", "o", "1", " ">>

\* "1to0 "
K_1to0 == <<"1", "t", "o", "0", " ">>

\* "->"
K_Arrow == <<"-", ">">>

\* "transition"
K_transition == <<"t", "r", "a", "n", "s", "i", "t", "i", "o", "n">>

(***************************************************************************)
(* Data model (ExclusionTypes.h).  An unordered_map is a function on the   *)
(* set of its keys; a vector is a sequence; std::optional<int> is << >>    *)
(* (nullopt) or <<n>>.                                                     *)
(***************************************************************************)

EmptyMap == << >>

Keys(m) == DOMAIN m

\* m[k] = v of std::unordered_map (insert or assign)
Put(m, k, v) == [x \in (DOMAIN m) \cup {k} |-> IF x = k THEN v ELSE m[x]]

\* m.erase(k) for every k in ks
Erase(m, ks) == [x \in (DOMAIN m) \ ks |-> m[x]]

\* BlockExclusion(id, cs, code, annot)
BlockExclusion(id, cs, code, annot) ==
    [blockId |-> id, checksum |-> cs, sourceCode |-> code, annotation |-> annot]

\* ToggleExclusion(dir, name, bit, desc, annot)
ToggleExclusion(dir, name, bit, desc, annot) ==
    [direction |-> dir, signalName |-> name, bitIndex |-> bit,
     netDescription |-> desc, annotation |-> annot]

\* FsmExclusion(name, cs, annot): a state exclusion
FsmState(name, cs, annot) ==
    [fsmName |-> name, checksum |-> cs, fromState |-> << >>, toState |-> << >>,
     transitionId |-> << >>, annotation |-> annot, isTransition |-> FALSE]

\* FsmExclusion(name, from, to, transId, annot): a transition exclusion
FsmTransition(name, from, to, transId, annot) ==
    [fsmName |-> name, checksum |-> << >>, fromState |-> from, toState |-> to,
     transitionId |-> transId, annotation |-> annot, isTransition |-> TRUE]

\* ConditionExclusion(id, cs, expr, params, cov, annot)
ConditionExclusion(id, cs, expr, params, cov, annot) ==
    [conditionId |-> id, checksum |-> cs, expression |-> expr,
     parameters |-> params, coverage |-> cov, annotation |-> annot]

\* ExclusionScope(name, cs, module)
ExclusionScope(name, cs, module) ==
    [scopeName |-> name, checksum |-> cs, isModule |-> module,
     blockExclusions |-> EmptyMap, toggleExclusions |-> EmptyMap,
     fsmExclusions |-> EmptyMap, conditionExclusions |-> EmptyMap]

\* ExclusionScope::addBlockExclusion
addBlockExclusion(scope, e) ==
    [scope EXCEPT !.blockExclusions = Put(@, e.blockId, e)]

\* operator[] then push_back on a map of vectors
PushBack(m, k, e) == Put(m, k, Append(IF k \in DOMAIN m THEN m[k] ELSE << >>, e))

\* ExclusionScope::addToggleExclusion
addToggleExclusion(scope, e) ==
    [scope EXCEPT !.toggleExclusions = PushBack(@, e.signalName, e)]

\* an addFsmExclusion that files the record under its checksum
addFsmExclusionUnderChecksum(scope, e) ==
    [scope EXCEPT !.fsmExclusions = PushBack(@, e.checksum, e)]

\* ExclusionScope::addFsmExclusion
addFsmExclusion(scope, e) ==
    [scope EXCEPT !.fsmExclusions = PushBack(@, e.fsmName, e)]

\* ExclusionScope::addConditionExclusion
addConditionExclusion(scope, e) ==
    [scope EXCEPT !.conditionExclusions = Put(@, e.conditionId, e)]

RECURSIVE SumLens(_)
\* the sum of the list lengths of a map of vectors
SumLens(m) ==
    IF DOMAIN m = {} THEN 0
    ELSE LET k == CHOOSE x \in DOMAIN m : TRUE
         IN  Len(m[k]) + SumLens(Erase(m, {k}))

\* a getTotalExclusionCount of a scope that leaves the fsm lists out
ScopeTotalWithoutFsm(scope) ==
    Cardinality(DOMAIN scope.blockExclusions)
    + Cardinality(DOMAIN scope.conditionExclusions)
    + SumLens(scope.toggleExclusions)

\* ExclusionScope::getTotalExclusionCount
ScopeTotalExclusionCount(scope) ==
    Cardinality(DOMAIN scope.blockExclusions)
    + Cardinality(DOMAIN scope.conditionExclusions)
    + SumLens(scope.toggleExclusions) + SumLens(scope.fsmExclusions)

\* ExclusionData(filename)
ExclusionData(filename) ==
    [fileName |-> filename, generatedBy |-> << >>, formatVersion |-> << >>,
     generationDate |-> << >>, exclusionMode |-> << >>, scopes |-> EmptyMap]

\* a getOrCreateScope that stores its arguments in the scope it finds
getOrCreateScopeAssigning(data, scopeName, checksum, isModule) ==
    IF scopeName \in DOMAIN data.scopes
    THEN [data EXCEPT !.scopes[scopeName].checksum = checksum,
                      !.scopes[scopeName].isModule = isModule]
    ELSE [data EXCEPT !.scopes = Put(@, scopeName, ExclusionScope(scopeName, checksum, isModule))]

\* ExclusionData::getOrCreateScope: the database after the call
getOrCreateScope(data, scopeName, checksum, isModule) ==
    IF scopeName \in DOMAIN data.scopes THEN data
    ELSE [data EXCEPT !.scopes = Put(@, scopeName, ExclusionScope(scopeName, checksum, isModule))]

\* ExclusionData::clear
clearData(data) == ExclusionData(<< >>)

\* ExclusionDataManager::isEmpty on a manager whose data_ is set
isEmpty(data) == DOMAIN data.scopes = { }

\* ExclusionData::getScopeCount
getScopeCount(data) == Cardinality(DOMAIN data.scopes)

RECURSIVE SumOver(_, _, _)
\* the sum of f-counts over the scopes named in names
SumOver(scopes, names, kind) ==
    IF names = {} THEN 0
    ELSE LET n == CHOOSE x \in names : TRUE
             s == scopes[n]
             c == CASE kind = "BLOCK" -> Cardinality(DOMAIN s.blockExclusions)
                    [] kind = "TOGGLE" -> SumLens(s.toggleExclusions)
                    [] kind = "FSM" -> SumLens(s.fsmExclusions)
                    [] kind = "CONDITION" -> Cardinality(DOMAIN s.conditionExclusions)
                    [] kind = "TOTAL" -> ScopeTotalExclusionCount(s)
         IN  c + SumOver(scopes, names \ {n}, kind)

\* ExclusionData::getTotalExclusionCount
getTotalExclusionCount(data) == SumOver(data.scopes, DOMAIN data.scopes, "TOTAL")

\* ExclusionData::getExclusionCountsByType
getExclusionCountsByType(data) ==
    [BLOCK |-> SumOver(data.scopes, DOMAIN data.scopes, "BLOCK"),
     TOGGLE |-> SumOver(data.scopes, DOMAIN data.scopes, "TOGGLE"),
     FSM |-> SumOver(data.scopes, DOMAIN data.scopes, "FSM"),
     CONDITION |-> SumOver(data.scopes, DOMAIN data.scopes, "CONDITION")]

(***************************************************************************)
(* Parser (ExclusionParser.cpp).  The session state of a parser is the     *)
(* record st: the database being filled (data), the private fields         *)
(* currentScope_, currentChecksum_, currentIsModule_, pendingAnnotation_,  *)
(* currentLineNumber_ and lastResult_.  A classifier parseX(st, line, ..)  *)
(* yields [ok |-> its return value, st |-> the state it leaves].           *)
(*                                                                         *)
(* A message is a record, not a text: kind names the fixed wording, line   *)
(* the number inserted by std::to_string, text the variable part.          *)
(***************************************************************************)

NoMessage == [kind |-> "none", line |-> 0, text |-> << >>]

Message(k, n, t) == [kind |-> k, line |-> n, text |-> t]

ZeroCounts == [BLOCK |-> 0, TOGGLE |-> 0, FSM |-> 0, CONDITION |-> 0]

\* ParseResult()
ParseResult ==
    [success |-> FALSE, errorMessage |-> NoMessage, linesProcessed |-> 0,
     exclusionsParsed |-> 0, warnings |-> << >>, exclusionCounts |-> ZeroCounts]

\* ParserConfig()
ParserConfig ==
    [strictMode |-> FALSE, validateChecksums |-> TRUE, preserveComments |-> TRUE,
     mergeOnLoad |-> FALSE, maxFileSize |-> 100 * 1024 * 1024]

\* ExclusionParser::validateChecksum
validateChecksum(checksum) ==
    /\ checksum # << >>
    /\ \A i \in 1..Len(checksum) : IsDigit(checksum[i]) \/ checksum[i] = " "

\* ExclusionParser::addWarning: the warning goes to lastResult_
addWarning(st, warning) ==
    [st EXCEPT !.lastResult_.warnings = Append(@, warning)]

\* the value after "<key>:" as parseHeader, parseChecksum, parseScope and
\* parseAnnotation take it: has is pos + 1 < line.length() for the first ':'
AfterColon(line) ==
    Let(Find(line, <<":">>, 0), LAMBDA pos :
        [has |-> pos # NPOS /\ pos + 1 < Len(line),
         text |-> IF pos # NPOS /\ pos + 1 < Len(line)
                  THEN trim(SubstrFrom(line, pos + 1)) ELSE << >>])

\* "Remove quotes if present"
StripQuotes(s) ==
    IF s # << >> /\ s[1] = QUOTE /\ s[Len(s)] = QUOTE
    THEN Substr(s, 1, SubU(Len(s), 2)) ELSE s

\* ExclusionParser::parseHeader
parseHeader(st, line) ==
    Let(AfterColon(line), LAMBDA v :
        IF Find(line, K_GeneratedBy, 0) # NPOS
        THEN [ok |-> TRUE,
              st |-> IF v.has THEN [st EXCEPT !.data.generatedBy = v.text] ELSE st]
        ELSE IF Find(line, K_FormatVersion, 0) # NPOS
        THEN [ok |-> TRUE,
              st |-> IF v.has THEN [st EXCEPT !.data.formatVersion = v.text] ELSE st]
        ELSE IF Find(line, K_Date, 0) # NPOS
        THEN [ok |-> TRUE,
              st |-> IF v.has THEN [st EXCEPT !.data.generationDate = v.text] ELSE st]
        ELSE IF Find(line, K_ExclMode, 0) # NPOS
        THEN [ok |-> TRUE,
              st |-> IF v.has THEN [st EXCEPT !.data.exclusionMode = v.text] ELSE st]
        ELSE [ok |-> FALSE, st |-> st])

\* ExclusionParser::parseChecksum
parseChecksum(st, line, config) ==
    IF StartsWith(line, K_CHECKSUM)
    THEN Let(AfterColon(line), LAMBDA v :
         Let(StripQuotes(v.text), LAMBDA cs :
         Let([st EXCEPT !.currentChecksum_ = cs], LAMBDA s1 :
             [ok |-> TRUE,
              st |-> IF ~v.has THEN st
                     ELSE IF config.validateChecksums /\ ~validateChecksum(cs)
                          THEN addWarning(s1, Message("Invalid checksum format", 0, cs))
                          ELSE s1])))
    ELSE [ok |-> FALSE, st |-> st]

\* the two branches of parseScope: set the current scope, create or get it
DeclareScope(st, line, module) ==
    Let(AfterColon(line), LAMBDA v :
        IF ~v.has THEN st
        ELSE [st EXCEPT !.currentScope_ = v.text,
                        !.currentIsModule_ = module,
                        !.data = getOrCreateScope(@, v.text, st.currentChecksum_, module)])

\* ExclusionParser::parseScope
parseScope(st, line) ==
    IF StartsWith(line, K_INSTANCE) THEN [ok |-> TRUE, st |-> DeclareScope(st, line, FALSE)]
    ELSE IF StartsWith(line, K_MODULE) THEN [ok |-> TRUE, st |-> DeclareScope(st, line, TRUE)]
    ELSE [ok |-> FALSE, st |-> st]

\* ExclusionParser::parseAnnotation
parseAnnotation(st, line) ==
    IF StartsWith(line, K_ANNOTATION) \/ StartsWith(line, K_ANNOTATION_BEGIN)
    THEN Let(AfterColon(line), LAMBDA v :
             [ok |-> TRUE,
              st |-> IF v.has THEN [st EXCEPT !.pendingAnnotation_ = StripQuotes(v.text)]
                     ELSE st])
    ELSE IF StartsWith(line, K_ANNOTATION_END) THEN [ok |-> TRUE, st |-> st]
    ELSE [ok |-> FALSE, st |-> st]

\* the tail shared by the five exclusion parsers: inside a scope the record
\* is added to the current scope (created if need be) and the pending
\* annotation is cleared; outside any scope nothing is stored.
\* add is "Block", "Toggle", "Fsm" or "Condition"; e is the record.
AddToCurrentScope(st, add, e) ==
    IF st.currentScope_ = << >> THEN st
    ELSE Let(getOrCreateScope(st.data, st.currentScope_, st.currentChecksum_,
                              st.currentIsModule_), LAMBDA d :
         Let(d.scopes[st.currentScope_], LAMBDA s :
             [st EXCEPT !.data = [d EXCEPT !.scopes[st.currentScope_] =
                                     CASE add = "Block" -> addBlockExclusion(s, e)
                                       [] add = "Toggle" -> addToggleExclusion(s, e)
                                       [] add = "Fsm" -> addFsmExclusion(s, e)
                                       [] add = "Condition" -> addConditionExclusion(s, e)],
                        !.pendingAnnotation_ = << >>]))

\* ExclusionParser::parseBlockExclusion
parseBlockExclusion(st, line) ==
    IF StartsWith(line, K_Block)
    THEN Let(SecondToken(line), LAMBDA blockId :
         Let(extractQuotedString(line, Find(line, blockId, 0) + Len(blockId)), LAMBDA cs :
         Let(extractQuotedString(line, cs.pos), LAMBDA sc :
             [ok |-> TRUE,
              st |-> AddToCurrentScope(st, "Block",
                        BlockExclusion(blockId, cs.text, sc.text, st.pendingAnnotation_))])))
    ELSE [ok |-> FALSE, st |-> st]

RECURSIVE DigitsValue(_, _)
\* the value of the decimal digits d read after the value acc
DigitsValue(d, acc) ==
    IF d = << >> THEN acc
    ELSE DigitsValue(Tail(d),
            10 * acc + (CHOOSE n \in 0..9 :
                <<"0", "1", "2", "3", "4", "5", "6", "7", "8", "9">>[n + 1] = Head(d)))

\* std::stoi inside try/catch(...): <<n>>, or << >> when it throws
StoI(str) ==
    Let(TokenStart(str, 0), LAMBDA s0 :
    Let(IF s0 = NPOS THEN << >> ELSE SubstrFrom(str, s0), LAMBDA body :
    Let(IF body # << >> /\ body[1] \in {"-", "+"} THEN Tail(body) ELSE body, LAMBDA rest :
    Let(MinOr({ i \in 1..Len(rest) : ~IsDigit(rest[i]) }, Len(rest) + 1) - 1, LAMBDA nd :
    Let(DigitsValue(SubSeq(rest, 1, nd), 0), LAMBDA val :
        IF nd = 0 THEN << >>
        ELSE IF body[1] = "-" THEN << 0 - val >> ELSE << val >>)))))

\* ExclusionParser::parseToggleExclusion
parseToggleExclusion(st, line) ==
    IF StartsWith(line, K_Toggle)
    THEN Let(trim(SubstrFrom(line, 7)), LAMBDA rem0 :
         Let(IF StartsWith(rem0, K_0to1) THEN "ZERO_TO_ONE"
             ELSE IF StartsWith(rem0, K_1to0) THEN "ONE_TO_ZERO"
             ELSE "BOTH", LAMBDA direction :
         Let(IF direction = "BOTH" THEN rem0 ELSE SubstrFrom(rem0, 5), LAMBDA rem1 :
         Let(Find(rem1, <<" ">>, 0), LAMBDA spacePos :
         Let(Find(rem1, <<"[">>, 0), LAMBDA bracketPos :
         Let(IF Min2(spacePos, bracketPos) = NPOS THEN Len(rem1)
             ELSE Min2(spacePos, bracketPos), LAMBDA endPos :
         Let(bracketPos # NPOS /\ bracketPos < spacePos, LAMBDA hasBracket :
         Let(Find(rem1, <<"]">>, bracketPos), LAMBDA closeBracket :
         Let(IF hasBracket /\ closeBracket # NPOS
             THEN StoI(Substr(rem1, bracketPos + 1, closeBracket - bracketPos - 1))
             ELSE << >>, LAMBDA bitIndex :
         Let(IF hasBracket
             THEN IF closeBracket # NPOS THEN SubstrFrom(rem1, closeBracket + 1)
                  ELSE rem1
             ELSE SubstrFrom(rem1, endPos), LAMBDA rem2 :
             [ok |-> TRUE,
              st |-> AddToCurrentScope(st, "Toggle",
                        ToggleExclusion(direction, Substr(rem1, 0, endPos), bitIndex,
                                        extractQuotedString(rem2, 0).text,
                                        st.pendingAnnotation_))]))))))))))
    ELSE [ok |-> FALSE, st |-> st]

\* ExclusionParser::parseFsmExclusion
parseFsmExclusion(st, line) ==
    IF StartsWith(line, K_Fsm)
    THEN Let(SecondToken(line), LAMBDA fsmName :
             [ok |-> TRUE,
              st |-> AddToCurrentScope(st, "Fsm",
                        FsmState(fsmName,
                                 extractQuotedString(line, Find(line, fsmName, 0)
                                                           + Len(fsmName)).text,
                                 st.pendingAnnotation_))])
    ELSE [ok |-> FALSE, st |-> st]

\* "Split expression and parameters" of parseConditionExclusion
SplitExpression(expr) ==
    Let(RFind(expr, <<" ">>), LAMBDA lastSpace :
        IF lastSpace # NPOS
        THEN [expression |-> Substr(expr, 0, lastSpace),
              parameters |-> SubstrFrom(expr, lastSpace + 1)]
        ELSE [expression |-> expr, parameters |-> << >>])

\* "Extract coverage part" of parseConditionExclusion, where front() reads
\* the terminator of an empty trailer, which is not '(': no coverage.
CoverageOf(remaining) ==
    IF remaining # << >> /\ remaining[1] = "(" /\ remaining[Len(remaining)] = ")"
    THEN Substr(remaining, 1, SubU(Len(remaining), 2)) ELSE << >>

\* the trailer parseConditionExclusion calls front() on
ConditionTrailer(line) ==
    Let(SecondToken(line), LAMBDA conditionId :
    Let(extractQuotedString(line, Find(line, conditionId, 0) + Len(conditionId)),
        LAMBDA cs :
        trim(SubstrFrom(line, extractQuotedString(line, cs.pos).pos))))

\* ExclusionParser::parseConditionExclusion
parseConditionExclusion(st, line) ==
    IF StartsWith(line, K_Condition)
    THEN Let(SecondToken(line), LAMBDA conditionId :
         Let(extractQuotedString(line, Find(line, conditionId, 0) + Len(conditionId)),
             LAMBDA cs :
         Let(extractQuotedString(line, cs.pos), LAMBDA expr :
         Let(SplitExpression(expr.text), LAMBDA sp :
             [ok |-> TRUE,
              st |-> AddToCurrentScope(st, "Condition",
                        ConditionExclusion(conditionId, cs.text, sp.expression,
                                           sp.parameters,
                                           CoverageOf(trim(SubstrFrom(line, expr.pos))),
                                           st.pendingAnnotation_))]))))
    ELSE [ok |-> FALSE, st |-> st]

\* ExclusionParser::parseTransition
parseTransition(st, line) ==
    IF StartsWith(line, K_Transition)
    THEN Let(SubstrFrom(line, 11), LAMBDA remaining :
         Let(Find(remaining, K_Arrow, 0), LAMBDA arrowPos :
             IF arrowPos = NPOS THEN [ok |-> FALSE, st |-> st]
             ELSE Let(Find(remaining, <<" ">>, arrowPos), LAMBDA spacePos :
                  IF spacePos = NPOS THEN [ok |-> FALSE, st |-> st]
                  ELSE [ok |-> TRUE,
                        st |-> AddToCurrentScope(st, "Fsm",
                                  FsmTransition(K_transition,
                                      trim(Substr(remaining, 0, arrowPos)),
                                      trim(Substr(remaining, arrowPos + 2,
                                                  spacePos - arrowPos - 2)),
                                      extractQuotedString(remaining, spacePos).text,
                                      st.pendingAnnotation_))])))
    ELSE [ok |-> FALSE, st |-> st]

\* a loop that forgets to count the exclusion
NotCounted(res, kind) == res

\* result.exclusionsParsed++ and result.exclusionCounts[kind]++
Counted(res, kind) ==
    [res EXCEPT !.exclusionsParsed = @ + 1, !.exclusionCounts[kind] = @ + 1]

\* the loop goes on to the next line
StepOut(s, r) == [st |-> s, result |-> r, returned |-> FALSE]

\* ExclusionParser::createError: "Line <currentLineNumber_>: <message>"
createError(st, kind, text) == Message(kind, st.currentLineNumber_, text)

\* the "if (!parsed)" branch of parseStream with strict mode taken as lenient
UnrecognizedGoesOn(st, result, line, config) ==
    StepOut(st, [result EXCEPT !.warnings =
                    Append(@, Message("Unrecognized line format",
                                      st.currentLineNumber_, line))])

\* the "if (!parsed)" branch of parseStream: the warning, and in strict mode
\* the error message and "return result"
Unrecognized(st, result, line, config) ==
    Let([result EXCEPT !.warnings =
            Append(@, Message("Unrecognized line format",
                              st.currentLineNumber_, line))], LAMBDA warned :
        IF config.strictMode
        THEN [st |-> st,
              result |-> [warned EXCEPT !.errorMessage =
                  createError(st, "Unrecognized line format", line)],
              returned |-> TRUE]
        ELSE StepOut(st, warned))

\* the body of the while loop of ExclusionParser::parseStream for one line:
\* st and result after the line; returned is TRUE when the loop is left by
\* the strict-mode "return result".
ParseStep(st, result, raw, config) ==
    Let([st EXCEPT !.currentLineNumber_ = @ + 1], LAMBDA st1 :
    Let([result EXCEPT !.linesProcessed = @ + 1], LAMBDA res1 :
    Let(trim(raw), LAMBDA line :
        IF line = << >> THEN StepOut(st1, res1)
        ELSE IF isComment(line) THEN StepOut(st1, res1)
        ELSE Let(parseHeader(st1, line), LAMBDA hd :
        IF hd.ok THEN StepOut(hd.st, res1)
        ELSE Let(parseChecksum(st1, line, config), LAMBDA ck :
        IF ck.ok THEN StepOut(ck.st, res1)
        ELSE Let(parseScope(st1, line), LAMBDA sc :
        IF sc.ok THEN StepOut(sc.st, res1)
        ELSE Let(parseAnnotation(st1, line), LAMBDA an :
        IF an.ok THEN StepOut(an.st, res1)
        ELSE Let(parseBlockExclusion(st1, line), LAMBDA bl :
        IF bl.ok THEN StepOut(bl.st, Counted(res1, "BLOCK"))
        ELSE Let(parseToggleExclusion(st1, line), LAMBDA tg :
        IF tg.ok THEN StepOut(tg.st, Counted(res1, "TOGGLE"))
        ELSE Let(parseFsmExclusion(st1, line), LAMBDA fs :
        IF fs.ok THEN StepOut(fs.st, Counted(res1, "FSM"))
        ELSE Let(parseConditionExclusion(st1, line), LAMBDA cd :
        IF cd.ok THEN StepOut(cd.st, Counted(res1, "CONDITION"))
        ELSE Let(parseTransition(st1, line), LAMBDA tr :
        IF tr.ok THEN StepOut(tr.st, Counted(res1, "FSM"))
        ELSE Unrecognized(st1, res1, line, config)))))))))))))

\* the end of ExclusionParser::parseStream when the stream is exhausted
ParseFinish(st, result) ==
    LET res == [result EXCEPT !.success = TRUE]
    IN  [st |-> [st EXCEPT !.lastResult_ = res], result |-> res]

\* ExclusionParser::resetState
resetState(st) ==
    [st EXCEPT !.currentScope_ = << >>, !.currentChecksum_ = << >>,
               !.currentIsModule_ = FALSE, !.pendingAnnotation_ = << >>,
               !.currentLineNumber_ = 0]

\* the session of a parser right after construction, over the database data
NewSession(data) ==
    [data |-> data, currentScope_ |-> << >>, currentChecksum_ |-> << >>,
     currentIsModule_ |-> FALSE, pendingAnnotation_ |-> << >>,
     currentLineNumber_ |-> 0, lastResult_ |-> ParseResult]

\* does parseLine reach the front() of parseConditionExclusion with an empty
\* trailer on the line raw
ReachesFrontOfEmpty(st, raw, config) ==
    Let(trim(raw), LAMBDA line :
        /\ StartsWith(line, K_Condition)
        /\ ConditionTrailer(line) = << >>
        /\ ~isComment(line)
        /\ ~parseHeader(st, line).ok
        /\ ~parseChecksum(st, line, config).ok
        /\ ~parseScope(st, line).ok
        /\ ~parseAnnotation(st, line).ok
        /\ ~parseBlockExclusion(st, line).ok
        /\ ~parseToggleExclusion(st, line).ok
        /\ ~parseFsmExclusion(st, line).ok)

\* what the step of parseStream on the line raw can do
FrontOutcomes(st, raw, config) ==
    IF ReachesFrontOfEmpty(st, raw, config) THEN { "terminator", "abort" } ELSE { "defined" }

\* ExclusionParser::parseStream over the lines of a whole stream: after[k] is
\* the state after k lines, or the state at the strict-mode return before
ParseLines(st, result, lines, config) ==
    LET after[k \in 0..Len(lines)] ==
            IF k = 0 THEN StepOut(st, result)
            ELSE Let(after[k - 1], LAMBDA o :
                     IF o.returned THEN o
                     ELSE ParseStep(o.st, o.result, lines[k], config))
    IN  Let(after[Len(lines)], LAMBDA o :
            IF o.returned THEN [st |-> o.st, result |-> o.result]
            ELSE ParseFinish(o.st, o.result))

\* ExclusionParser::parseString on a parser with session st
parseString(st, lines, config) == ParseLines(resetState(st), ParseResult, lines, config)

\* "Failed to parse " + filename + ": " + result.errorMessage
FailedToParse(filename, result) ==
    Message("Failed to parse", 0, [file |-> filename, error |-> result.errorMessage])

\* parseFiles' "Combine results" with the counts of the last file taken
\* instead of added
CombineKeepingLast(combinedResult, result) ==
    [combinedResult EXCEPT !.linesProcessed = result.linesProcessed,
                           !.exclusionsParsed = result.exclusionsParsed,
                           !.exclusionCounts = result.exclusionCounts,
                           !.warnings = @ \o result.warnings]

\* parseFiles' "Combine results" and "Combine warnings" for one file
CombineResults(combinedResult, result) ==
    [combinedResult EXCEPT !.linesProcessed = @ + result.linesProcessed,
                           !.exclusionsParsed = @ + result.exclusionsParsed,
                           !.exclusionCounts =
                               [t \in DOMAIN @ |-> @[t] + result.exclusionCounts[t]],
                           !.warnings = @ \o result.warnings]

\* no parseFiles call is running
NoBatch ==
    [active |-> FALSE, filenames |-> << >>, next |-> 1, continueOnError |-> FALSE,
     combinedResult |-> ParseResult, attempted |-> << >>]

(***************************************************************************)
(* Writer (ExclusionWriter.cpp).  A written stream is the sequence of its  *)
(* lines.  The iteration order of the std::unordered_map containers is not *)
(* fixed by the language: iter is a sequence listing the keys in the order *)
(* the build iterates them.  std::hash and the clock are not fixed either: *)
(* hash maps a key to the value std::hash<std::string> gives it, now is    *)
(* the text of the current time.  A size_t is 64 bits wide and is kept as  *)
(* four 16-bit limbs, the least significant first.                         *)
(***************************************************************************)

\* the characters of the model's strings in the order of their codes
Ascii ==
    <<
       "\t", " ", "!", "\"", "#", "$", "%", "&", "'", "(", ")", "*",
       "+", ",", "-", ".", "/", "0", "1", "2", "3", "4", "5", "6",
       "7", "8", "9", ":", ";", "<", "=", ">", "?", "@", "A", "B",
       "C", "D", "E", "F", "G", "H", "I", "J", "K", "L", "M", "N",
       "O", "P", "Q", "R", "S", "T", "U", "V", "W", "X", "Y", "Z",
       "[", "\\", "]", "^", "_", "a", "b", "c", "d", "e", "f",
       "g", "h", "i", "j", "k", "l", "m", "n", "o", "p", "q", "r",
       "s", "t", "u", "v", "w", "x", "y", "z", "{", "|", "}", "~" >>

Code(c) == CHOOSE i \in 1..Len(Ascii) : Ascii[i] = c

RECURSIVE Less(_, _)
\* operator< of std::string
Less(a, b) ==
    IF b = << >> THEN FALSE
    ELSE IF a = << >> THEN TRUE
    ELSE IF Head(a) # Head(b) THEN Code(Head(a)) < Code(Head(b))
    ELSE Less(Tail(a), Tail(b))

RECURSIVE SortStrings(_)
\* std::sort of the strings of S
SortStrings(S) ==
    IF S = {} THEN << >>
    ELSE LET m == CHOOSE x \in S : \A y \in S \ {x} : Less(x, y)
         IN  << m >> \o SortStrings(S \ {m})

RECURSIVE Flatten(_)
Flatten(ss) == IF ss = << >> THEN << >> ELSE Head(ss) \o Flatten(Tail(ss))

RECURSIVE to_string(_)
\* std::to_string of a natural number
to_string(n) ==
    IF n < 10 THEN << Ascii[Code("0") + n] >>
    ELSE to_string(n \div 10) \o << Ascii[Code("0") + (n % 10)] >>

\* WriterConfig()
WriterConfig ==
    [includeComments |-> TRUE, includeAnnotations |-> TRUE, sortExclusions |-> FALSE,
     generateChecksums |-> TRUE, preserveOrder |-> TRUE, indentation |-> << >>]

\* VisitOrder of a writer that never sorts
VisitOrderUnsorted(S, iter, wcfg) == SelectSeq(iter, LAMBDA k : k \in S)

\* the keys S in the order the writer visits them
VisitOrder(S, iter, wcfg) ==
    IF wcfg.sortExclusions THEN SortStrings(S)
    ELSE SelectSeq(iter, LAMBDA k : k \in S)

\* ExclusionWriter::writeLine
writeLine(wcfg, line) == << wcfg.indentation \o line >>

RECURSIVE escapeString(_)
\* ExclusionWriter::escapeString
escapeString(str) ==
    IF str = << >> THEN << >>
    ELSE (IF Head(str) = QUOTE THEN << "\\", QUOTE >> ELSE << Head(str) >>)
         \o escapeString(Tail(str))

\* toggleDirectionToString
toggleDirectionToString(direction) ==
    CASE direction = "ZERO_TO_ONE" -> << "0", "t", "o", "1" >>
      [] direction = "ONE_TO_ZERO" -> << "1", "t", "o", "0" >>
      [] OTHER -> << >>

\* a writeAnnotation that puts no line on the stream
writeAnnotationNothing(wcfg, annotation) == << >>

\* ExclusionWriter::writeAnnotation
writeAnnotation(wcfg, annotation) ==
    IF annotation = << >> THEN << >>
    ELSE writeLine(wcfg, K_ANNOTATION \o << " ", QUOTE >> \o escapeString(annotation)
                         \o << QUOTE >>)

\* the annotation line the record writers put before a record
AnnotationOf(wcfg, e) ==
    IF wcfg.includeAnnotations /\ e.annotation # << >>
    THEN writeAnnotation(wcfg, e.annotation) ELSE << >>

\* ExclusionWriter::writeChecksum
writeChecksum(wcfg, checksum) ==
    writeLine(wcfg, K_CHECKSUM \o << " ", QUOTE >> \o checksum \o << QUOTE >>)

\* one more than the largest 16-bit limb
Limb == 65536

\* size_t hash = 0
ZeroWord == << 0, 0, 0, 0 >>

\* 0x9e3779b9
GoldenRatio == << 31161, 40503, 0, 0 >>

\* a + b of two size_t
AddWord(a, b) ==
    Let(a[1] + b[1], LAMBDA s1 :
    Let(a[2] + b[2] + (s1 \div Limb), LAMBDA s2 :
    Let(a[3] + b[3] + (s2 \div Limb), LAMBDA s3 :
        << s1 % Limb, s2 % Limb, s3 % Limb, (a[4] + b[4] + (s3 \div Limb)) % Limb >>)))

\* a << 6 of a size_t
ShiftLeft6(a) ==
    << (a[1] * 64) % Limb,
       ((a[2] * 64) % Limb) + (a[1] \div 1024),
       ((a[3] * 64) % Limb) + (a[2] \div 1024),
       ((a[4] * 64) % Limb) + (a[3] \div 1024) >>

\* a >> 2 of a size_t
ShiftRight2(a) ==
    << (a[1] \div 4) + ((a[2] % 4) * 16384),
       (a[2] \div 4) + ((a[3] % 4) * 16384),
       (a[3] \div 4) + ((a[4] % 4) * 16384),
       a[4] \div 4 >>

\* x ^ y of two limbs
XorLimb(x, y) ==
    LET bits[i \in 0..16] ==
            IF i = 16 THEN 0
            ELSE ((((x \div (2 ^ i)) + (y \div (2 ^ i))) % 2) * (2 ^ i)) + bits[i + 1]
    IN  bits[0]

\* a ^ b of two size_t
XorWord(a, b) == [i \in 1..4 |-> XorLimb(a[i], b[i])]

\* a / 10 and a % 10 of a size_t
DivWord10(a) ==
    Let(a[4], LAMBDA c4 :
    Let(((c4 % 10) * Limb) + a[3], LAMBDA c3 :
    Let(((c3 % 10) * Limb) + a[2], LAMBDA c2 :
    Let(((c2 % 10) * Limb) + a[1], LAMBDA c1 :
        [quot |-> << c1 \div 10, c2 \div 10, c3 \div 10, c4 \div 10 >>,
         rem |-> c1 % 10]))))

RECURSIVE WordDigits(_)
\* the decimal digits of a size_t that is not 0
WordDigits(a) ==
    IF a = ZeroWord THEN << >>
    ELSE WordDigits(DivWord10(a).quot) \o to_string(DivWord10(a).rem)

\* std::to_string of a size_t
WordToString(a) == IF a = ZeroWord THEN to_string(0) ELSE WordDigits(a)

\* ExclusionWriter::generateScopeChecksum: the block keys, then the toggle
\* keys, each in the order the container is iterated in
generateScopeChecksum(scope, hash, iter) ==
    LET keys == SelectSeq(iter, LAMBDA k : k \in DOMAIN scope.blockExclusions)
                \o SelectSeq(iter, LAMBDA k : k \in DOMAIN scope.toggleExclusions)
        acc[i \in 0..Len(keys)] ==
            IF i = 0 THEN ZeroWord
            ELSE XorWord(acc[i - 1],
                         AddWord(AddWord(AddWord(hash[keys[i]], GoldenRatio),
                                         ShiftLeft6(acc[i - 1])),
                                 ShiftRight2(acc[i - 1])))
    IN  WordToString(acc[Len(keys)])

\* ExclusionWriter::writeBlockExclusions
writeBlockExclusions(wcfg, scope, iter) ==
    LET blockOrder == VisitOrder(DOMAIN scope.blockExclusions, iter, wcfg)
        One(blockId) ==
            LET block == scope.blockExclusions[blockId]
            IN  AnnotationOf(wcfg, block)
                \o writeLine(wcfg, K_Block \o blockId \o << " ", QUOTE >>
                       \o block.checksum \o << QUOTE, " ", QUOTE >>
                       \o escapeString(block.sourceCode) \o << QUOTE >>)
    IN  Flatten([i \in 1..Len(blockOrder) |-> One(blockOrder[i])])

\* ExclusionWriter::writeToggleExclusions
writeToggleExclusions(wcfg, scope, iter) ==
    LET signalOrder == VisitOrder(DOMAIN scope.toggleExclusions, iter, wcfg)
        One(toggle) ==
            LET direction == toggleDirectionToString(toggle.direction)
            IN  AnnotationOf(wcfg, toggle)
                \o writeLine(wcfg, K_Toggle
                       \o (IF direction # << >> THEN direction \o << " " >> ELSE << >>)
                       \o toggle.signalName
                       \o (IF toggle.bitIndex # << >>
                           THEN << " ", "[" >> \o to_string(toggle.bitIndex[1]) \o << "]" >>
                           ELSE << >>)
                       \o << " ", QUOTE >> \o escapeString(toggle.netDescription)
                       \o << QUOTE >>)
        Sig(signalName) ==
            LET toggles == scope.toggleExclusions[signalName]
            IN  Flatten([j \in 1..Len(toggles) |-> One(toggles[j])])
    IN  Flatten([i \in 1..Len(signalOrder) |-> Sig(signalOrder[i])])

\* ExclusionWriter::writeFsmExclusions
writeFsmExclusions(wcfg, scope, iter) ==
    LET fsmOrder == VisitOrder(DOMAIN scope.fsmExclusions, iter, wcfg)
        One(fsm) ==
            AnnotationOf(wcfg, fsm)
            \o (IF fsm.isTransition
                THEN writeLine(wcfg, K_Transition \o fsm.fromState \o K_Arrow
                         \o fsm.toState \o << " ", QUOTE >> \o fsm.transitionId
                         \o << QUOTE >>)
                ELSE writeLine(wcfg, K_Fsm \o fsm.fsmName \o << " ", QUOTE >>
                         \o fsm.checksum \o << QUOTE >>))
        Name(fsmName) ==
            LET fsms == scope.fsmExclusions[fsmName]
            IN  Flatten([j \in 1..Len(fsms) |-> One(fsms[j])])
    IN  Flatten([i \in 1..Len(fsmOrder) |-> Name(fsmOrder[i])])

\* ExclusionWriter::writeConditionExclusions
writeConditionExclusions(wcfg, scope, iter) ==
    LET conditionOrder == VisitOrder(DOMAIN scope.conditionExclusions, iter, wcfg)
        One(condId) ==
            LET condition == scope.conditionExclusions[condId]
            IN  AnnotationOf(wcfg, condition)
                \o writeLine(wcfg, K_Condition \o condId \o << " ", QUOTE >>
                       \o condition.checksum \o << QUOTE, " ", QUOTE >>
                       \o escapeString(condition.expression)
                       \o (IF condition.parameters # << >>
                           THEN << " " >> \o condition.parameters ELSE << >>)
                       \o << QUOTE >>
                       \o (IF condition.coverage # << >>
                           THEN << " ", "(" >> \o condition.coverage \o << ")" >>
                           ELSE << >>))
    IN  Flatten([i \in 1..Len(conditionOrder) |-> One(conditionOrder[i])])

\* ExclusionWriter::writeScope
writeScope(wcfg, scopeName, scope, iter, hash) ==
    (IF scope.checksum # << >> THEN writeChecksum(wcfg, scope.checksum)
     ELSE IF wcfg.generateChecksums
          THEN writeChecksum(wcfg, generateScopeChecksum(scope, hash, iter))
          ELSE << >>)
    \o writeLine(wcfg, (IF scope.isModule THEN K_MODULE ELSE K_INSTANCE) \o scopeName)
    \o writeBlockExclusions(wcfg, scope, iter)
    \o writeToggleExclusions(wcfg, scope, iter)
    \o writeFsmExclusions(wcfg, scope, iter)
    \o writeConditionExclusions(wcfg, scope, iter)

W_Rule == <<"/", "/", "=", "=", "=", "=", "=", "=", "=", "=", "=", "=", "=", "=", "=", "=", "=", "=", "=", "=", "=", "=", "=", "=", "=", "=", "=", "=", "=", "=", "=", "=", "=", "=", "=", "=", "=", "=", "=", "=", "=", "=", "=", "=", "=", "=", "=", "=", "=", "=", "=", "=">>

W_Title == <<"/", "/", " ", "T", "h", "i", "s", " ", "f", "i", "l", "e", " ", "c", "o", "n", "t", "a", "i", "n", "s", " ", "t", "h", "e", " ", "E", "x", "c", "l", "u", "d", "e", "d", " ", "o", "b", "j", "e", "c", "t", "s">>

W_GeneratedBy == <<"/", "/", " ", "G", "e", "n", "e", "r", "a", "t", "e", "d", " ", "B", "y", " ", "U", "s", "e", "r", ":", " ">>

W_DefaultUser == <<"E", "x", "c", "l", "u", "s", "i", "o", "n", "C", "o", "v", "e", "r", "a", "g", "e", "P", "a", "r", "s", "e", "r">>

W_FormatVersion == <<"/", "/", " ", "F", "o", "r", "m", "a", "t", " ", "V", "e", "r", "s", "i", "o", "n", ":", " ">>

W_Date == <<"/", "/", " ", "D", "a", "t", "e", ":", " ">>

W_ExclMode == <<"/", "/", " ", "E", "x", "c", "l", "M", "o", "d", "e", ":", " ">>

W_DefaultMode == <<"d", "e", "f", "a", "u", "l", "t">>

\* ExclusionWriter::writeHeader
writeHeader(wcfg, data, now) ==
    writeLine(wcfg, W_Rule)
    \o writeLine(wcfg, W_Title)
    \o writeLine(wcfg, W_GeneratedBy
           \o (IF data.generatedBy # << >> THEN data.generatedBy ELSE W_DefaultUser))
    \o writeLine(wcfg, W_FormatVersion
           \o (IF data.formatVersion # << >> THEN data.formatVersion ELSE to_string(2)))
    \o writeLine(wcfg, W_Date
           \o (IF data.generationDate # << >> THEN data.generationDate ELSE now))
    \o writeLine(wcfg, W_ExclMode
           \o (IF data.exclusionMode # << >> THEN data.exclusionMode ELSE W_DefaultMode))
    \o writeLine(wcfg, W_Rule)

\* ExclusionWriter::writeToStream: the lines put on the stream
writeToStream(wcfg, data, iter, hash, now) ==
    LET scopeOrder == VisitOrder(DOMAIN data.scopes, iter, wcfg)
    IN  (IF wcfg.includeComments THEN writeHeader(wcfg, data, now) ELSE << >>)
        \o Flatten([i \in 1..Len(scopeOrder) |->
                      writeScope(wcfg, scopeOrder[i], data.scopes[scopeOrder[i]], iter, hash)])

\* ExclusionWriter::writeToString
writeToString(wcfg, data, iter, hash, now) == writeToStream(wcfg, data, iter, hash, now)

(***************************************************************************)
(* Merge and statistics (ExclusionTypes.h, ExclusionData.cpp)              *)
(***************************************************************************)

RECURSIVE AddEach(_, _, _)
\* the inner loops of merge: every record of list added to existingScope
AddEach(existingScope, list, kind) ==
    IF list = << >> THEN existingScope
    ELSE AddEach(IF kind = "TOGGLE" THEN addToggleExclusion(existingScope, Head(list))
                 ELSE addFsmExclusion(existingScope, Head(list)),
                 Tail(list), kind)

RECURSIVE AddLists(_, _, _)
\* the outer loops of merge over a map of vectors m
AddLists(existingScope, m, kind) ==
    IF DOMAIN m = {} THEN existingScope
    ELSE LET k == CHOOSE x \in DOMAIN m : TRUE
         IN  AddLists(AddEach(existingScope, m[k], kind), Erase(m, {k}), kind)

\* the assignments of merge with the test of overwriteExisting left out: the
\* record of from always wins
MergeByIdOverwriting(existing, from, overwriteExisting) ==
    [k \in (DOMAIN existing) \cup (DOMAIN from) |->
        IF k \in DOMAIN from THEN from[k] ELSE existing[k]]

\* the assignments of merge into a map keyed by identifier
MergeById(existing, from, overwriteExisting) ==
    [k \in (DOMAIN existing) \cup (DOMAIN from) |->
        IF k \in DOMAIN from /\ (overwriteExisting \/ k \notin DOMAIN existing)
        THEN from[k] ELSE existing[k]]

\* the else branch of ExclusionData::merge: scope merged into existingScope
MergeScope(existingScope, scope, overwriteExisting) ==
    LET s1 == [existingScope EXCEPT !.blockExclusions =
                  MergeById(@, scope.blockExclusions, overwriteExisting)]
        s2 == AddLists(s1, scope.toggleExclusions, "TOGGLE")
        s3 == AddLists(s2, scope.fsmExclusions, "FSM")
    IN  [s3 EXCEPT !.conditionExclusions =
            MergeById(@, scope.conditionExclusions, overwriteExisting)]

\* a merge that never copies a scope over a scope self holds
mergeRecordwise(self, other, overwriteExisting) ==
    [self EXCEPT !.scopes =
        [n \in (DOMAIN self.scopes) \cup (DOMAIN other.scopes) |->
            IF n \notin DOMAIN other.scopes THEN self.scopes[n]
            ELSE IF n \notin DOMAIN self.scopes THEN other.scopes[n]
                 ELSE MergeScope(self.scopes[n], other.scopes[n], overwriteExisting)]]

\* ExclusionData::merge: the database self after self.merge(other, ..)
merge(self, other, overwriteExisting) ==
    [self EXCEPT !.scopes =
        [n \in (DOMAIN self.scopes) \cup (DOMAIN other.scopes) |->
            IF n \notin DOMAIN other.scopes THEN self.scopes[n]
            ELSE IF n \notin DOMAIN self.scopes \/ overwriteExisting
                 THEN other.scopes[n]
                 ELSE MergeScope(self.scopes[n], other.scopes[n], overwriteExisting)]]

\* ExclusionStatistics()
ExclusionStatistics ==
    [totalScopes |-> 0, totalExclusions |-> 0, exclusionsByType |-> ZeroCounts,
     exclusionsByScope |-> EmptyMap, annotatedExclusions |-> 0, moduleScopes |-> 0,
     instanceScopes |-> 0]

RECURSIVE AnnotatedIn(_)
\* the records of a vector with a non-empty annotation
AnnotatedIn(list) ==
    IF list = << >> THEN 0
    ELSE (IF Head(list).annotation # << >> THEN 1 ELSE 0) + AnnotatedIn(Tail(list))

RECURSIVE AnnotatedInLists(_)
AnnotatedInLists(m) ==
    IF DOMAIN m = {} THEN 0
    ELSE LET k == CHOOSE x \in DOMAIN m : TRUE
         IN  AnnotatedIn(m[k]) + AnnotatedInLists(Erase(m, {k}))

RECURSIVE AnnotatedInMap(_)
AnnotatedInMap(m) ==
    IF DOMAIN m = {} THEN 0
    ELSE LET k == CHOOSE x \in DOMAIN m : TRUE
         IN  (IF m[k].annotation # << >> THEN 1 ELSE 0) + AnnotatedInMap(Erase(m, {k}))

RECURSIVE StatisticsLoop(_, _, _)
\* the loop of getStatistics over the scopes named in names
StatisticsLoop(stats, scopes, names) ==
    IF names = {} THEN stats
    ELSE LET scopeName == CHOOSE x \in names : TRUE
             scope == scopes[scopeName]
             scopeExclusions == ScopeTotalExclusionCount(scope)
             next ==
                 [stats EXCEPT
                    !.moduleScopes = IF scope.isModule THEN @ + 1 ELSE @,
                    !.instanceScopes = IF scope.isModule THEN @ ELSE @ + 1,
                    !.totalExclusions = @ + scopeExclusions,
                    !.exclusionsByScope = Put(@, scopeName, scopeExclusions),
                    !.annotatedExclusions =
                        @ + AnnotatedInMap(scope.blockExclusions)
                          + AnnotatedInLists(scope.toggleExclusions)
                          + AnnotatedInLists(scope.fsmExclusions)
                          + AnnotatedInMap(scope.conditionExclusions)]
         IN  StatisticsLoop(next, scopes, names \ {scopeName})

\* ExclusionDataManager::getStatistics on a manager whose data_ is data
getStatistics(data) ==
    LET stats == StatisticsLoop([ExclusionStatistics EXCEPT
                                    !.totalScopes = Cardinality(DOMAIN data.scopes)],
                                data.scopes, DOMAIN data.scopes)
    IN  [stats EXCEPT !.exclusionsByType = getExclusionCountsByType(data)]

(***************************************************************************)
(* Search and removal (ExclusionData.cpp).  A std::optional criterion is   *)
(* << >> when it is not set and << v >> when it holds v; iter is the       *)
(* iteration order of the unordered maps.                                  *)
(***************************************************************************)

\* SearchCriteria()
SearchCriteria ==
    [type |-> << >>, scopeName |-> << >>, annotation |-> << >>, signalName |-> << >>,
     isModule |-> << >>]

\* criterion.has_value() && text.find(criterion.value()) == npos
FiltersOut(criterion, text) == criterion # << >> /\ Find(text, criterion[1], 0) = NPOS

\* TypeWanted with the kind criterion ignored
TypeAlwaysWanted(criteria, kind) == TRUE

\* !criteria.type.has_value() || criteria.type.value() == kind
TypeWanted(criteria, kind) == criteria.type = << >> \/ criteria.type[1] = kind

\* the pairs one pass of search's kind loops adds for the records of list
PairsOfList(criteria, scopeName, kind, list) ==
    Flatten([j \in 1..Len(list) |->
                IF FiltersOut(criteria.annotation, list[j].annotation) THEN << >>
                ELSE << << scopeName, kind >> >>])

\* the body of search's loop over the scopes, for one scope
searchScope(criteria, scopeName, scope, iter) ==
    LET Order(S) == SelectSeq(iter, LAMBDA k : k \in S)
        blockOrder == Order(DOMAIN scope.blockExclusions)
        toggleOrder == Order(DOMAIN scope.toggleExclusions)
        fsmOrder == Order(DOMAIN scope.fsmExclusions)
        condOrder == Order(DOMAIN scope.conditionExclusions)
    IN  IF FiltersOut(criteria.scopeName, scopeName) THEN << >>
        ELSE IF criteria.isModule # << >> /\ scope.isModule # criteria.isModule[1]
        THEN << >>
        ELSE (IF TypeWanted(criteria, "BLOCK")
              THEN PairsOfList(criteria, scopeName, "BLOCK",
                       [i \in 1..Len(blockOrder) |-> scope.blockExclusions[blockOrder[i]]])
              ELSE << >>)
          \o (IF TypeWanted(criteria, "TOGGLE")
              THEN Flatten([i \in 1..Len(toggleOrder) |->
                       IF FiltersOut(criteria.signalName, toggleOrder[i]) THEN << >>
                       ELSE PairsOfList(criteria, scopeName, "TOGGLE",
                                        scope.toggleExclusions[toggleOrder[i]])])
              ELSE << >>)
          \o (IF TypeWanted(criteria, "FSM")
              THEN Flatten([i \in 1..Len(fsmOrder) |->
                       PairsOfList(criteria, scopeName, "FSM",
                                   scope.fsmExclusions[fsmOrder[i]])])
              ELSE << >>)
          \o (IF TypeWanted(criteria, "CONDITION")
              THEN PairsOfList(criteria, scopeName, "CONDITION",
                       [i \in 1..Len(condOrder) |-> scope.conditionExclusions[condOrder[i]]])
              ELSE << >>)

\* ExclusionDataManager::search on a manager whose data_ is data
search(data, criteria, iter) ==
    LET scopeOrder == SelectSeq(iter, LAMBDA k : k \in DOMAIN data.scopes)
    IN  Flatten([i \in 1..Len(scopeOrder) |->
                    searchScope(criteria, scopeOrder[i], data.scopes[scopeOrder[i]], iter)])

\* the BLOCK case of removeExclusions for one match: the blocks of the scope
\* whose annotation holds the criterion are erased and counted
removeBlocks(acc, criteria, scopeName) ==
    IF criteria.annotation = << >> THEN acc
    ELSE LET blocks == acc.data.scopes[scopeName].blockExclusions
             gone == { k \in DOMAIN blocks :
                         Find(blocks[k].annotation, criteria.annotation[1], 0) # NPOS }
         IN  [data |-> [acc.data EXCEPT !.scopes[scopeName].blockExclusions = Erase(@, gone)],
              removedCount |-> acc.removedCount + Cardinality(gone)]

\* ExclusionDataManager::removeExclusions on a manager whose data_ is data:
\* the database afterwards and the number returned
removeExclusions(data, criteria, iter) ==
    LET matches == search(data, criteria, iter)
        after[k \in 0..Len(matches)] ==
            IF k = 0 THEN [data |-> data, removedCount |-> 0]
            ELSE IF matches[k][1] \in DOMAIN after[k - 1].data.scopes
                    /\ matches[k][2] = "BLOCK"
                 THEN removeBlocks(after[k - 1], criteria, matches[k][1])
                 ELSE after[k - 1]
    IN  after[Len(matches)]

(***************************************************************************)
(* PatternMatcher (ExclusionData.cpp).  std::regex is modelled for the     *)
(* patterns matches() can hand it: after the escaping every character is   *)
(* a literal except the quantifiers * and ?.                               *)
(***************************************************************************)

\* the characters of the class [-[\]{}()+.,\^$|#\s]
specialChars ==
    { "-", "[", "]", "{", "}", "(", ")", "+", ".", ",", "\\", "^", "$", "|", "#",
      " ", "\t" }

RECURSIVE EscapeSpecial(_)
\* std::regex_replace(regexPattern, specialChars, R"(\$&)")
EscapeSpecial(p) ==
    IF p = << >> THEN << >>
    ELSE (IF Head(p) \in specialChars THEN << "\\", Head(p) >> ELSE << Head(p) >>)
         \o EscapeSpecial(Tail(p))

IsQuantifier(c) == c \in { "*", "?" }

\* the length of the run of quantifiers of rp that starts at position i (1-based)
QuantifierRun(rp, i) ==
    LET ends == { j \in i..(Len(rp) + 1) :
                    /\ \A k \in i..(j - 1) : IsQuantifier(rp[k])
                    /\ (j = Len(rp) + 1 \/ ~IsQuantifier(rp[j])) }
    IN  SetMin(ends) - i

RECURSIVE Compile(_, _)
\* std::regex(regexPattern): the terms [ch, q] of the expression, q one of
\* "one", "opt" (zero or one), "star" (zero or more); error is TRUE where the
\* constructor throws std::regex_error.  stacked is TRUE where a quantifier
\* follows a quantifier, which ECMAScript rejects and libstdc++ accepts.
Compile(rp, i) ==
    IF i > Len(rp) THEN [error |-> FALSE, stacked |-> FALSE, terms |-> << >>]
    ELSE IF IsQuantifier(rp[i]) THEN [error |-> TRUE, stacked |-> FALSE, terms |-> << >>]
    ELSE LET esc  == rp[i] = "\\"
             ch   == IF esc THEN rp[i + 1] ELSE rp[i]
             q0   == IF esc THEN i + 2 ELSE i + 1
             run  == QuantifierRun(rp, q0)
             qs   == SubSeq(rp, q0, q0 + run - 1)
             q    == IF run = 0 THEN "one"
                     ELSE IF \E k \in 1..run : qs[k] = "*" THEN "star" ELSE "opt"
             \* a ? right after a quantifier only makes it non-greedy
             stk  == run > 2 \/ (run = 2 /\ qs[2] = "*")
             rest == Compile(rp, q0 + run)
         IN  [error |-> rest.error, stacked |-> stk \/ rest.stacked,
              terms |-> << [ch |-> ch, q |-> q] >> \o rest.terms]

UpperCase == << "A", "B", "C", "D", "E", "F", "G", "H", "I", "J", "K", "L", "M",
                "N", "O", "P", "Q", "R", "S", "T", "U", "V", "W", "X", "Y", "Z" >>

LowerCase == << "a", "b", "c", "d", "e", "f", "g", "h", "i", "j", "k", "l", "m",
                "n", "o", "p", "q", "r", "s", "t", "u", "v", "w", "x", "y", "z" >>

ToLower(c) ==
    IF \E i \in 1..Len(UpperCase) : UpperCase[i] = c
    THEN LowerCase[CHOOSE i \in 1..Len(UpperCase) : UpperCase[i] = c]
    ELSE c

SameChar(a, b, caseSensitive) == IF caseSensitive THEN a = b ELSE ToLower(a) = ToLower(b)

RECURSIVE regex_match(_, _, _)
\* std::regex_match(str, regex) for the compiled terms
regex_match(terms, str, caseSensitive) ==
    IF terms = << >> THEN str = << >>
    ELSE LET t    == Head(terms)
             here == str # << >> /\ SameChar(Head(str), t.ch, caseSensitive)
         IN  CASE t.q = "one"  -> here /\ regex_match(Tail(terms), Tail(str), caseSensitive)
               [] t.q = "opt"  -> \/ regex_match(Tail(terms), str, caseSensitive)
                                  \/ here /\ regex_match(Tail(terms), Tail(str), caseSensitive)
               [] t.q = "star" -> \/ regex_match(Tail(terms), str, caseSensitive)
                                  \/ here /\ regex_match(terms, Tail(str), caseSensitive)

\* PatternMatcher::matches.  The results of the two std::regex_replace calls
\* that would turn * into .* and ? into . are discarded, so regexPattern is
\* the escaped pattern.  acceptStacked is the library's answer to stacked
\* quantifiers.
matches(pattern, str, caseSensitive, acceptStacked) ==
    LET regexPattern == EscapeSpecial(pattern)
        regex == Compile(regexPattern, 1)
    IN  IF regex.error \/ (regex.stacked /\ ~acceptStacked) THEN FALSE
        ELSE regex_match(regex.terms, str, caseSensitive)

\* ExclusionDataManager::findScopesMatching: the names it returns, as a set
findScopesMatching(data, pattern, acceptStacked) ==
    { scopeName \in DOMAIN data.scopes : matches(pattern, scopeName, TRUE, acceptStacked) }

(***************************************************************************)
(* Input lines                                                             *)
(***************************************************************************)

\* CHECKSUM: "12"
L_Checksum == <<"C", "H", "E", "C", "K", "S", "U", "M", ":", " ", "\"", "1", "2", "\"">>

\* INSTANCE:top
L_Instance == <<"I", "N", "S", "T", "A", "N", "C", "E", ":", "t", "o", "p">>

\* MODULE:top
L_Module == <<"M", "O", "D", "U", "L", "E", ":", "t", "o", "p">>

\* ANNOTATION: "why"
L_Annotation == <<"A", "N", "N", "O", "T", "A", "T", "I", "O", "N", ":", " ", "\"", "w", "h", "y", "\"">>

\* Block 1 "11" "x"
L_Block == <<"B", "l", "o", "c", "k", " ", "1", " ", "\"", "1", "1", "\"", " ", "\"", "x", "\"">>

\* Toggle 0to1 clk "net clk"
L_Toggle == <<"T", "o", "g", "g", "l", "e", " ", "0", "t", "o", "1", " ", "c", "l", "k", " ", "\"", "n", "e", "t", " ", "c", "l", "k", "\"">>

\* Fsm st "85"
L_Fsm == <<"F", "s", "m", " ", "s", "t", " ", "\"", "8", "5", "\"">>

\* Transition A->B "1"
L_Transition == <<"T", "r", "a", "n", "s", "i", "t", "i", "o", "n", " ", "A", "-", ">", "B", " ", "\"", "1", "\"">>

\* Condition 2 "111" "(a && b) 1 -1" (1 "01")
L_ScenarioB == <<"C", "o", "n", "d", "i", "t", "i", "o", "n", " ", "2", " ", "\"", "1", "1", "1", "\"", " ", "\"", "(", "a", " ", "&", "&", " ", "b", ")", " ", "1", " ", "-", "1", "\"", " ", "(", "1", " ", "\"", "0", "1", "\"", ")">>

\* INSTANCE:top "999"
L_ScenarioA1 == <<"I", "N", "S", "T", "A", "N", "C", "E", ":", "t", "o", "p", " ", "\"", "9", "9", "9", "\"">>

\* Block 161 "1104666086" "x = 1'b0;"
L_ScenarioA2 == <<"B", "l", "o", "c", "k", " ", "1", "6", "1", " ", "\"", "1", "1", "0", "4", "6", "6", "6", "0", "8", "6", "\"", " ", "\"", "x", " ", "=", " ", "1", "'", "b", "0", ";", "\"">>

\* bogus
L_Bogus == <<"b", "o", "g", "u", "s">>

\* // c
L_Comment == <<"/", "/", " ", "c">>

\*   
L_Blank == <<" ", " ">>

\* INSTANCE:u1
L_Other == <<"I", "N", "S", "T", "A", "N", "C", "E", ":", "u", "1">>

\* Toggle 1to0 clk "d"
L_ToggleDown == <<"T", "o", "g", "g", "l", "e", " ", "1", "t", "o", "0", " ", "c", "l", "k", " ", "\"", "d", "\"">>

\* Toggle sig "desc"
L_ToggleBoth == <<"T", "o", "g", "g", "l", "e", " ", "s", "i", "g", " ", "\"", "d", "e", "s", "c", "\"">>

\* Toggle q [3] "d"
L_ToggleBit == <<"T", "o", "g", "g", "l", "e", " ", "q", " ", "[", "3", "]", " ", "\"", "d", "\"">>

\* CHECKSUM: "ab"
L_ChecksumBad == <<"C", "H", "E", "C", "K", "S", "U", "M", ":", " ", "\"", "a", "b", "\"">>

\* CHECKSUM: "1 2"
L_ChecksumSpaced == <<"C", "H", "E", "C", "K", "S", "U", "M", ":", " ", "\"", "1", " ", "2", "\"">>

\* Block 2 "11" "y"
L_Block2 == <<"B", "l", "o", "c", "k", " ", "2", " ", "\"", "1", "1", "\"", " ", "\"", "y", "\"">>

\* Block 1 "11
L_BlockOpen == <<"B", "l", "o", "c", "k", " ", "1", " ", "\"", "1", "1">>

\* Block 1
L_BlockBare == <<"B", "l", "o", "c", "k", " ", "1">>

\* Block 1 "11" "x
L_BlockHalf == <<"B", "l", "o", "c", "k", " ", "1", " ", "\"", "1", "1", "\"", " ", "\"", "x">>

\* Toggle clk "d
L_ToggleOpen == <<"T", "o", "g", "g", "l", "e", " ", "c", "l", "k", " ", "\"", "d">>

\* Fsm st "85
L_FsmOpen == <<"F", "s", "m", " ", "s", "t", " ", "\"", "8", "5">>

\* Transition A->B
L_TransitionBare == <<"T", "r", "a", "n", "s", "i", "t", "i", "o", "n", " ", "A", "-", ">", "B">>

\* Condition 2 "111
L_ConditionOpen == <<"C", "o", "n", "d", "i", "t", "i", "o", "n", " ", "2", " ", "\"", "1", "1", "1">>

\* Toggle 0to1 r[4] "e"
L_ToggleTight == <<"T", "o", "g", "g", "l", "e", " ", "0", "t", "o", "1", " ", "r", "[", "4", "]", " ", "\"", "e", "\"">>

\* Block 3 "11" "Date: x"
L_BlockDate == <<"B", "l", "o", "c", "k", " ", "3", " ", "\"", "1", "1", "\"", " ", "\"", "D", "a", "t", "e", ":", " ", "x", "\"">>

\* ANNOTATION: "ExclMode: a"
L_AnnotationMode == <<"A", "N", "N", "O", "T", "A", "T", "I", "O", "N", ":", " ", "\"", "E", "x", "c", "l", "M", "o", "d", "e", ":", " ", "a", "\"">>

\* Date: Mon
L_Date == <<"D", "a", "t", "e", ":", " ", "M", "o", "n">>

\* Generated By User: me
L_GeneratedBy == <<"G", "e", "n", "e", "r", "a", "t", "e", "d", " ", "B", "y", " ", "U", "s", "e", "r", ":", " ", "m", "e">>

\* Format Version: 2
L_FormatVersion == <<"F", "o", "r", "m", "a", "t", " ", "V", "e", "r", "s", "i", "o", "n", ":", " ", "2">>

\* ExclMode: a
L_ExclMode == <<"E", "x", "c", "l", "M", "o", "d", "e", ":", " ", "a">>

\* the lines the input streams of the model are made of
Pool ==
    << L_Checksum, L_Instance, L_Module, L_Annotation, L_Block, L_Toggle, L_Fsm,
       L_Transition, L_ScenarioB, L_ScenarioA1, L_ScenarioA2, L_Bogus, L_Comment,
       L_Blank, L_Other, L_ToggleDown, L_ToggleBoth, L_ToggleBit, L_ChecksumBad,
       L_ChecksumSpaced, L_Block2, L_BlockOpen, L_BlockBare, L_BlockHalf,
       L_ToggleOpen, L_FsmOpen, L_TransitionBare, L_ConditionOpen, L_ToggleTight,
       L_BlockDate, L_AnnotationMode, L_Date, L_GeneratedBy, L_FormatVersion,
       L_ExclMode >>

\* the position of a line in Pool
LineNo(l) == CHOOSE i \in 1..Len(Pool) : Pool[i] = l

PoolOf(ls) == { LineNo(l) : l \in ls }

(***************************************************************************)
(* Files.  A file is known by its name; what the file system answers for   *)
(* it is fixed per name.                                                   *)
(***************************************************************************)

F_Gone == <<"g", "o", "n", "e">>

F_Huge == <<"h", "u", "g", "e">>

F_Doc == <<"d", "o", "c">>

FileNames == { F_Gone, F_Huge, F_Doc }

\* FileUtils::fileExists
fileExists(filename) == filename # F_Gone

\* FileUtils::getFileSize (0 where std::filesystem::file_size throws)
getFileSize(filename) ==
    CASE filename = F_Huge -> 100 * 1024 * 1024 + 1
      [] filename = F_Doc -> 64
      [] OTHER -> 0

\* a size test that lets every file pass
FileTooLargeNever(fileSize, config) == FALSE

\* the size test of ExclusionParser::parseFile
FileTooLarge(fileSize, config) == fileSize > config.maxFileSize

(***************************************************************************)
(* Bounds of the model                                                     *)
(***************************************************************************)

\* lines read from input streams in one behaviour
MaxLines == 4

\* lines read in one behaviour that writes the database and parses it again
MaxDocLines == 3

\* calls made on the data model in one behaviour
MaxCalls == 3

\* calls made on the data model in a behaviour that also parses
MaxScopeCalls == 1

\* length of the patterns and of the strings handed to the matcher
MaxLen == 2

\* the calls that fill the database before it is searched
MaxSearchCalls == 2

\* files handed to one parseFiles call
MaxFiles == 2

\* lines read and calls made in a behaviour that parses, fills and merges
MaxKeyLines == 2

MaxKeyCalls == 2

(***************************************************************************)
(* Values the callers of the model pass                                    *)
(***************************************************************************)

N_top == <<"t", "o", "p">>

N_s == <<"s">>

N_t == <<"t">>

Checksums == { << >>, << "7" >> }

\* the file metadata a caller gives the database it has constructed
TestMetadata ==
    [fileName |-> << "f" >>, generatedBy |-> << "u" >>, formatVersion |-> << "2" >>,
     generationDate |-> << "M", "o", "n" >>, exclusionMode |-> << "t" >>]

Annotations == { << >>, << "n" >> }

\* values std::hash<std::string> can give a key: 10159970873491820195 and
\* 4551451650890805270, which libstdc++ gives "1" and "2"
HashValues == { << 36515, 64203, 30637, 36095 >>, << 12310, 28598, 297, 16170 >> }

\* the keys generateScopeChecksum hashes
HashedKeys(data) ==
    UNION { (DOMAIN data.scopes[n].blockExclusions)
            \cup (DOMAIN data.scopes[n].toggleExclusions) : n \in DOMAIN data.scopes }

\* what the clock can read when a header is written
Clock == { << "M", "o", "n" >>, << "T", "u", "e" >> }

\* the sequences over S that list every element of S once
Perms(S) ==
    { f \in [1..Cardinality(S) -> S] : \A i, j \in 1..Cardinality(S) : f[i] = f[j] => i = j }

\* every key of every std::unordered_map of data
KeysOf(data) ==
    (DOMAIN data.scopes)
    \cup UNION { (DOMAIN data.scopes[n].blockExclusions)
                 \cup (DOMAIN data.scopes[n].toggleExclusions)
                 \cup (DOMAIN data.scopes[n].fsmExclusions)
                 \cup (DOMAIN data.scopes[n].conditionExclusions) : n \in DOMAIN data.scopes }

\* the strings over the alphabet A of length at most n
StringsOver(A, n) == UNION { [1..k -> A] : k \in 0..n }

P_TbCore == <<"t", "b", ".", "*", ".", "c", "o", "r", "e">>

P_AnyC == <<"a", "?", "c">>

S_Cpu0Core == <<"t", "b", ".", "c", "p", "u", "0", ".", "c", "o", "r", "e">>

S_Cpu0Io == <<"t", "b", ".", "c", "p", "u", "0", ".", "i", "o">>

S_abc == <<"a", "b", "c">>

S_abcc == <<"a", "b", "c", "c">>

Patterns == StringsOver({ "a", ".", "*", "?" }, MaxLen) \cup { P_TbCore, P_AnyC }

Strings == StringsOver({ "a", "." }, MaxLen) \cup { S_Cpu0Core, S_Cpu0Io, S_abc, S_abcc }

(***************************************************************************)
(* State                                                                   *)
(***************************************************************************)

VARIABLES
    heap,                \* the ExclusionData objects, by identity
    data_,               \* ExclusionParser::data_ (a shared_ptr: an identity)
    mgrData,             \* ExclusionParser::dataManager_.data_
    held,                \* the database the caller holds, or "null"
    config_,             \* ExclusionParser::config_
    currentScope_,       \* ExclusionParser::currentScope_
    currentChecksum_,    \* ExclusionParser::currentChecksum_
    currentIsModule_,    \* ExclusionParser::currentIsModule_
    pendingAnnotation_,  \* ExclusionParser::pendingAnnotation_
    currentLineNumber_,  \* ExclusionParser::currentLineNumber_
    lastResult_,         \* ExclusionParser::lastResult_
    pc,                  \* "idle", or "parsing" inside parseStream's loop
    result,              \* the local ParseResult of the running parseStream
    ret,                 \* the ParseResult of the last parse call that returned
    answer,              \* what the last call other than a parse returned
    consumed,            \* Pool positions of the lines read by the current parse
    linesRead,           \* lines read so far in this behaviour
    calls,               \* calls on the data model so far in this behaviour
    op,                  \* the last operation: [name, arg]
    env,                 \* what the callers do: the Pool positions their streams
                         \* draw from, the scope names they use, their budgets,
                         \* the pattern and the string they hand to the matcher
    batch                \* the running parseFiles call: its arguments, its
                         \* position in filenames, its combinedResult, and the
                         \* result of every file attempted

vars ==
    << heap, data_, mgrData, held, config_, currentScope_, currentChecksum_,
       currentIsModule_, pendingAnnotation_, currentLineNumber_, lastResult_, pc,
       result, ret, answer, consumed, linesRead, calls, op, env, batch >>

sessionVars ==
    << currentScope_, currentChecksum_, currentIsModule_, pendingAnnotation_,
       currentLineNumber_, lastResult_ >>

refVars == << data_, mgrData, held >>

parseVars == << pc, result, ret, consumed, linesRead >>

\* what tells a step of the program from a step that changes nothing: every
\* variable but the values handed in and out, which differ in kind from call
\* to call, and of those the name of the operation
stepVars ==
    << heap, data_, mgrData, held, config_, sessionVars, parseVars, calls, op.name, batch >>

ObjIds == { "d1", "d2", "d3", "d4" }

\* an object no reference names
FreshObj == CHOOSE o \in ObjIds : o \notin { data_, mgrData, held }

\* objects no reference names any more are released
Release(h, refs) == [o \in ObjIds |-> IF o \in refs THEN h[o] ELSE ExclusionData(<< >>)]

\* the parser's session as the record the parse operators work on
Session ==
    [data |-> heap[data_], currentScope_ |-> currentScope_,
     currentChecksum_ |-> currentChecksum_, currentIsModule_ |-> currentIsModule_,
     pendingAnnotation_ |-> pendingAnnotation_,
     currentLineNumber_ |-> currentLineNumber_, lastResult_ |-> lastResult_]

\* the private fields of the session st written back to the parser
SetFields(st) ==
    /\ currentScope_' = st.currentScope_
    /\ currentChecksum_' = st.currentChecksum_
    /\ currentIsModule_' = st.currentIsModule_
    /\ pendingAnnotation_' = st.pendingAnnotation_
    /\ currentLineNumber_' = st.currentLineNumber_
    /\ lastResult_' = st.lastResult_

\* the session st written back to the parser and to its database
SetSession(st) ==
    /\ heap' = [heap EXCEPT ![data_] = st.data]
    /\ SetFields(st)

Op(n, a) == [name |-> n, arg |-> a]

Env(P, names, lines, apiCalls) ==
    [pool |-> P, names |-> names, lines |-> lines, calls |-> apiCalls,
     pattern |-> << >>, str |-> << >>]

\* ExclusionParser::ExclusionParser with a configuration of cfgs set, in the
\* environment e; h is the database the caller has constructed, or "null"
InitWith(e, cfgs, h) ==
    /\ heap = [o \in ObjIds |-> ExclusionData(<< >>)]
    /\ data_ = "d1"
    /\ mgrData = "d1"
    /\ held = h
    /\ config_ \in cfgs
    /\ currentScope_ = << >>
    /\ currentChecksum_ = << >>
    /\ currentIsModule_ = FALSE
    /\ pendingAnnotation_ = << >>
    /\ currentLineNumber_ = 0
    /\ lastResult_ = ParseResult
    /\ pc = "idle"
    /\ result = ParseResult
    /\ ret = ParseResult
    /\ answer = << >>
    /\ consumed = << >>
    /\ linesRead = 0
    /\ calls = 0
    /\ op = Op("construct", << >>)
    /\ env = e
    /\ batch = NoBatch

(***************************************************************************)
(* Parser operations                                                       *)
(***************************************************************************)

\* ExclusionParser::parseString up to the first getline of parseStream
ParseString ==
    /\ pc = "idle"
    /\ linesRead < env.lines
    /\ SetSession(resetState(Session))
    /\ pc' = "parsing"
    /\ result' = ParseResult
    /\ consumed' = << >>
    /\ op' = Op("parseString", << >>)
    /\ UNCHANGED << refVars, config_, ret, answer, linesRead, calls, env, batch >>

\* the public ExclusionParser::parseStream up to its first getline: the
\* session state is what the call before left
ParseStream ==
    /\ pc = "idle"
    /\ linesRead < env.lines
    /\ pc' = "parsing"
    /\ result' = ParseResult
    /\ consumed' = << >>
    /\ op' = Op("parseStream", << >>)
    /\ UNCHANGED << heap, refVars, config_, sessionVars, ret, answer, linesRead, calls,
                    env, batch >>

\* a manager that takes a database of its own whatever it is handed
setDataOwn(data, fresh) == fresh

\* ExclusionDataManager::setData: the database handed in, or a new one made
\* (fresh) when the pointer is null
setData(data, fresh) == IF data = "null" THEN fresh ELSE data

\* a parseFile that always keeps the database it has
ReplacesDataNever(config) == FALSE

\* "!config_.mergeOnLoad || !data_" of parseFile; data_ is never null
ReplacesData(config) == ~config.mergeOnLoad

\* ExclusionParser::parseFile up to its return or to the first getline of
\* parseStream; opens is whether std::ifstream can open the file
ParseFile(filename, opens) ==
    /\ pc = "idle"
    /\ linesRead < env.lines
    /\ SetFields(resetState(Session))
    /\ consumed' = << >>
    /\ op' = Op("parseFile", filename)
    /\ LET fileSize == getFileSize(filename)
           Fail(msg) ==
               /\ ret' = [ParseResult EXCEPT !.errorMessage = msg]
               /\ UNCHANGED << heap, data_, mgrData, pc, result >>
       IN  IF ~fileExists(filename)
           THEN Fail(Message("File does not exist", 0, filename))
           ELSE IF FileTooLarge(fileSize, config_)
           THEN Fail(Message("File too large", fileSize, to_string(config_.maxFileSize)))
           ELSE IF ~opens
           THEN Fail(Message("Cannot open file", 0, filename))
           ELSE /\ IF ReplacesData(config_)
                   THEN /\ data_' = FreshObj
                        /\ mgrData' = setData(data_', FreshObj)
                        /\ heap' = Release([heap EXCEPT ![FreshObj] = ExclusionData(filename)],
                                           { FreshObj, held })
                   ELSE /\ heap' = [heap EXCEPT ![data_].fileName = filename]
                        /\ UNCHANGED << data_, mgrData >>
                /\ pc' = "parsing"
                /\ result' = ParseResult
                /\ UNCHANGED ret
    /\ UNCHANGED << held, config_, answer, linesRead, calls, env, batch >>

\* one iteration of parseStream's loop: getline yields the line Pool[i].
\* front() of an empty string is undefined: a build either reads the
\* terminator and goes on, or stops the process on the failed precondition
\* !empty() of the library.
ParseLine(i) ==
    /\ pc = "parsing"
    /\ linesRead < env.lines
    /\ \E outcome \in FrontOutcomes(Session, Pool[i], config_) :
         IF outcome = "abort"
         THEN /\ pc' = "aborted"
              /\ UNCHANGED << heap, sessionVars, result, ret >>
         ELSE LET o == ParseStep(Session, result, Pool[i], config_)
              IN  /\ SetSession(o.st)
                  /\ result' = o.result
                  /\ pc' = IF o.returned THEN "idle" ELSE "parsing"
                  /\ ret' = IF o.returned THEN o.result ELSE ret
    /\ consumed' = Append(consumed, i)
    /\ linesRead' = linesRead + 1
    /\ op' = Op("parseLine", i)
    /\ UNCHANGED << refVars, config_, answer, calls, env, batch >>

\* getline fails: parseStream sets success, stores lastResult_ and returns
ParseEnd ==
    /\ pc = "parsing"
    /\ LET o == ParseFinish(Session, result)
       IN  /\ SetSession(o.st)
           /\ result' = o.result
           /\ ret' = o.result
    /\ pc' = "idle"
    /\ op' = Op("parseEnd", << >>)
    /\ UNCHANGED << refVars, config_, answer, consumed, linesRead, calls, env, batch >>

\* ExclusionParser::parseFiles up to the head of its loop
ParseFilesCall(filenames, continueOnError) ==
    /\ pc = "idle"
    /\ ~batch.active
    /\ linesRead < env.lines
    /\ batch' = [NoBatch EXCEPT !.active = TRUE, !.filenames = filenames,
                                !.continueOnError = continueOnError]
    /\ op' = Op("parseFiles", << >>)
    /\ UNCHANGED << heap, refVars, config_, sessionVars, parseVars, answer, calls, env >>

\* the call parseFile(filename) of parseFiles' loop
ParseFilesNext(opens) ==
    /\ batch.active
    /\ op.name \in { "parseFiles", "combine" }
    /\ batch.next <= Len(batch.filenames)
    /\ ParseFile(batch.filenames[batch.next], opens)

\* the rest of the body of parseFiles' loop once parseFile has returned
ParseFilesCombine ==
    /\ batch.active
    /\ pc = "idle"
    /\ op.name \in { "parseFile", "parseLine", "parseEnd" }
    /\ LET filename == batch.filenames[batch.next]
           combined == CombineResults(batch.combinedResult, ret)
           tried == Append(batch.attempted,
                        [file |-> filename, result |-> ret, lines |-> consumed])
       IN  IF ~ret.success /\ ~batch.continueOnError
           THEN LET failed == [combined EXCEPT !.success = FALSE,
                                               !.errorMessage = FailedToParse(filename, ret)]
                IN  /\ batch' = [batch EXCEPT !.active = FALSE, !.combinedResult = failed,
                                              !.attempted = tried]
                    /\ ret' = failed
           ELSE /\ batch' = [batch EXCEPT
                                !.next = @ + 1,
                                !.attempted = tried,
                                !.combinedResult =
                                    IF ret.success THEN combined
                                    ELSE [combined EXCEPT !.warnings =
                                             Append(@, FailedToParse(filename, ret))]]
                /\ UNCHANGED ret
    /\ op' = Op("combine", << >>)
    /\ UNCHANGED << heap, refVars, config_, sessionVars, pc, result, consumed, linesRead,
                    answer, calls, env >>

\* the end of parseFiles when every file has been attempted
ParseFilesReturn ==
    /\ batch.active
    /\ pc = "idle"
    /\ op.name \in { "parseFiles", "combine" }
    /\ batch.next > Len(batch.filenames)
    /\ batch' = [batch EXCEPT !.active = FALSE, !.combinedResult.success = TRUE]
    /\ ret' = batch'.combinedResult
    /\ op' = Op("parseFilesReturn", << >>)
    /\ UNCHANGED << heap, refVars, config_, sessionVars, pc, result, consumed, linesRead,
                    answer, calls, env >>

(***************************************************************************)
(* Calls on the data model, made between the calls of the parser           *)
(***************************************************************************)

\* the databases the caller can reach: its own and the parser's (getData)
Reachable == { data_, held } \ { "null" }

ApiCall(name, arg) ==
    /\ pc = "idle"
    /\ calls < env.calls
    /\ calls' = calls + 1
    /\ op' = Op(name, arg)
    /\ UNCHANGED << refVars, config_, sessionVars, parseVars, env, batch >>

\* ExclusionData::getOrCreateScope on the database o
GetOrCreateScope(o, n, c, m) ==
    /\ ApiCall("getOrCreateScope", [obj |-> o, name |-> n, checksum |-> c, isModule |-> m])
    /\ heap' = [heap EXCEPT ![o] = getOrCreateScope(@, n, c, m)]
    /\ answer' = heap'[o].scopes[n]

\* data.getOrCreateScope(n).addBlockExclusion(e) and its siblings
AddExclusion(o, n, kind, e) ==
    /\ ApiCall("add", [obj |-> o, name |-> n, kind |-> kind, e |-> e])
    /\ LET d == getOrCreateScope(heap[o], n, << >>, FALSE)
           s == d.scopes[n]
           t == CASE kind = "BLOCK" -> addBlockExclusion(s, e)
                  [] kind = "TOGGLE" -> addToggleExclusion(s, e)
                  [] kind = "FSM" -> addFsmExclusion(s, e)
                  [] kind = "CONDITION" -> addConditionExclusion(s, e)
       IN  heap' = [heap EXCEPT ![o] = [d EXCEPT !.scopes[n] = t]]
    /\ answer' = << >>

\* the records the callers add
RecordsOf(kind) ==
    CASE kind = "BLOCK" ->
           { BlockExclusion(<< "1" >>, << "9" >>, << "x" >>, a) : a \in Annotations }
      [] kind = "TOGGLE" ->
           { ToggleExclusion("BOTH", << "g" >>, << >>, << "d" >>, a) : a \in Annotations }
      [] kind = "FSM" -> { FsmState(<< "f" >>, << "8" >>, << "n" >>) }
      [] kind = "CONDITION" ->
           { ConditionExclusion(<< "1" >>, << "9" >>, << "e" >>, << >>, << >>, a) :
               a \in Annotations }

\* ExclusionDataManager::mergeData(*held, overwriteExisting) on the parser's manager
MergeData(overwriteExisting) ==
    /\ held \notin { "null", mgrData }
    /\ ApiCall("mergeData", overwriteExisting)
    /\ heap' = [heap EXCEPT ![mgrData] = merge(@, heap[held], overwriteExisting)]
    /\ answer' = TRUE

\* ExclusionDataManager::getStatistics on the parser's manager
GetStatistics ==
    /\ pc = "idle"
    /\ op.name # "getStatistics"
    /\ answer' = getStatistics(heap[mgrData])
    /\ op' = Op("getStatistics", << >>)
    /\ UNCHANGED << heap, refVars, config_, sessionVars, parseVars, calls, env, batch >>

\* ExclusionDataManager::search(criteria) on the parser's manager
Search(criteria, iter) ==
    /\ pc = "idle"
    /\ answer' = search(heap[mgrData], criteria, iter)
    /\ op' = Op("search", criteria)
    /\ UNCHANGED << heap, refVars, config_, sessionVars, parseVars, calls, env, batch >>

\* ExclusionDataManager::removeExclusions(criteria) on the parser's manager
RemoveExclusions(criteria, iter) ==
    /\ pc = "idle"
    /\ LET o == removeExclusions(heap[mgrData], criteria, iter)
       IN  /\ heap' = [heap EXCEPT ![mgrData] = o.data]
           /\ answer' = o.removedCount
    /\ op' = Op("removeExclusions", criteria)
    /\ UNCHANGED << refVars, config_, sessionVars, parseVars, calls, env, batch >>

\* the caller assigns the public metadata members of the database it holds
FillMetadata(fields) ==
    /\ held # "null"
    /\ ApiCall("fillMetadata", fields)
    /\ heap' = [heap EXCEPT ![held] =
                   [@ EXCEPT !.fileName = fields.fileName,
                             !.generatedBy = fields.generatedBy,
                             !.formatVersion = fields.formatVersion,
                             !.generationDate = fields.generationDate,
                             !.exclusionMode = fields.exclusionMode]]
    /\ answer' = << >>

\* ExclusionDataManager::setData(o) on the parser's manager (getDataManager)
ManagerSetData(o) ==
    /\ pc = "idle"
    /\ calls < env.calls
    /\ calls' = calls + 1
    /\ mgrData' = setData(o, FreshObj)
    /\ heap' = Release(heap, { data_, held, mgrData' })
    /\ answer' = << >>
    /\ op' = Op("managerSetData", o)
    /\ UNCHANGED << data_, held, config_, sessionVars, parseVars, env, batch >>

\* ExclusionParser::setData(o)
SetData(o) ==
    /\ pc = "idle"
    /\ calls < env.calls
    /\ calls' = calls + 1
    /\ data_' = IF o = "null" THEN FreshObj ELSE o
    /\ mgrData' = setData(data_', FreshObj)
    /\ heap' = Release(heap, { data_', held, mgrData' })
    /\ answer' = << >>
    /\ op' = Op("setData", o)
    /\ UNCHANGED << held, config_, sessionVars, parseVars, env, batch >>

\* ExclusionParser::clear
Clear ==
    /\ pc = "idle"
    /\ calls < env.calls
    /\ calls' = calls + 1
    /\ heap' = [heap EXCEPT ![data_] = clearData(@)]
    /\ SetFields(resetState(Session))
    /\ answer' = << >>
    /\ op' = Op("clear", << >>)
    /\ UNCHANGED << refVars, config_, parseVars, env, batch >>

\* ExclusionDataManager::clear on the parser's manager
ManagerClear ==
    /\ ApiCall("managerClear", << >>)
    /\ heap' = [heap EXCEPT ![mgrData] = clearData(@)]
    /\ answer' = << >>

\* ExclusionDataManager::isEmpty on the parser's manager
IsEmpty ==
    /\ pc = "idle"
    /\ op.name # "isEmpty"
    /\ answer' = isEmpty(heap[mgrData])
    /\ op' = Op("isEmpty", << >>)
    /\ UNCHANGED << heap, refVars, config_, sessionVars, parseVars, calls, env, batch >>

\* PatternMatcher::matches(pattern, str)
Matches(pattern, str, acceptStacked) ==
    /\ pc = "idle"
    /\ answer' = matches(pattern, str, TRUE, acceptStacked)
    /\ op' = Op("matches", acceptStacked)
    /\ UNCHANGED << heap, refVars, config_, sessionVars, parseVars, calls, env, batch >>

\* ExclusionDataManager::findScopesMatching(pattern) on the parser's manager
FindScopesMatching(pattern, acceptStacked) ==
    /\ pc = "idle"
    /\ answer' = findScopesMatching(heap[mgrData], pattern, acceptStacked)
    /\ op' = Op("findScopesMatching", acceptStacked)
    /\ UNCHANGED << heap, refVars, config_, sessionVars, parseVars, calls, env, batch >>

\* ExclusionWriter::writeToString(*parser.getData()) by a default writer,
\* after a parse that has returned
WriteToString(iter, hash, now) ==
    /\ pc = "idle"
    /\ op.name = "parseEnd"
    /\ answer' = writeToString(WriterConfig, heap[data_], iter, hash, now)
    /\ op' = Op("writeToString", << >>)
    /\ UNCHANGED << heap, refVars, config_, sessionVars, parseVars, calls, env, batch >>

\* ExclusionWriter::writeToString(data) by a writer configured with wcfg
WriteToStringWith(wcfg, iter, hash, now) ==
    /\ pc = "idle"
    /\ op.name = "parseEnd"
    /\ answer' = writeToString(wcfg, heap[data_], iter, hash, now)
    /\ op' = Op("writeToStringWith", [wcfg |-> wcfg, hash |-> hash])
    /\ UNCHANGED << heap, refVars, config_, sessionVars, parseVars, calls, env, batch >>

\* parseString of the text just written, by a parser constructed for it
ParseWritten ==
    /\ pc = "idle"
    /\ op.name = "writeToString"
    /\ answer' = parseString(NewSession(ExclusionData(<< >>)), answer, ParserConfig)
    /\ op' = Op("parseWritten", answer)
    /\ UNCHANGED << heap, refVars, config_, sessionVars, parseVars, calls, env, batch >>

(***************************************************************************)
(* Specifications                                                          *)
(***************************************************************************)

\* the default configuration, lenient or strict
Configs == { [ParserConfig EXCEPT !.strictMode = s] : s \in BOOLEAN }

\* the default configuration, with the default or a small size ceiling,
\* replacing or keeping the database on parseFile
FileConfigs ==
    { [ParserConfig EXCEPT !.maxFileSize = x, !.mergeOnLoad = g] :
        x \in { ParserConfig.maxFileSize, 32 }, g \in BOOLEAN }

CallGetOrCreateScope ==
    \E o \in Reachable, n \in env.names, c \in Checksums, m \in BOOLEAN :
        GetOrCreateScope(o, n, c, m)

CallAddExclusion ==
    \E o \in Reachable, n \in env.names, kind \in { "BLOCK", "TOGGLE", "FSM", "CONDITION" } :
        \E e \in RecordsOf(kind) : AddExclusion(o, n, kind, e)

\* a parser fed documents of scope, annotation and block lines, lenient or
\* strict, whose database the caller also reaches through getData()
Init ==
    InitWith(Env(PoolOf({ L_Instance, L_Module, L_Annotation, L_Block, L_Bogus }),
                 { N_top }, MaxLines, MaxScopeCalls),
             Configs, "null")

Next ==
    \/ ParseString
    \/ \E i \in env.pool : ParseLine(i)
    \/ ParseEnd
    \/ CallGetOrCreateScope

Spec == Init /\ [][Next]_vars

\* a parser fed the documents of the two scenarios
InitScenario ==
    InitWith(Env(PoolOf({ L_ScenarioA1, L_ScenarioA2, L_ScenarioB, L_Instance, L_Comment,
                          L_Blank }),
                 { }, MaxLines, 0),
             { ParserConfig }, "null")

NextScenario ==
    \/ ParseString
    \/ \E i \in env.pool : ParseLine(i)
    \/ ParseEnd

SpecScenario == InitScenario /\ [][NextScenario]_vars

\* a parser, lenient or strict, fed short documents in which blank, comment
\* and unrecognized lines stand among recognised ones
InitLines ==
    InitWith(Env(PoolOf({ L_Instance, L_Block, L_Bogus, L_Comment, L_Blank }),
                 { }, MaxDocLines, 0),
             Configs, "null")

NextLines ==
    \/ ParseString
    \/ \E i \in env.pool : ParseLine(i)
    \/ ParseEnd

SpecLines == InitLines /\ [][NextLines]_vars

\* a lenient parser fed Toggle lines with and without a directional token
InitToggle ==
    InitWith(Env(PoolOf({ L_Instance, L_Toggle, L_ToggleDown, L_ToggleBoth, L_ToggleBit }),
                 { }, MaxDocLines, 0),
             { ParserConfig }, "null")

NextToggle ==
    \/ ParseString
    \/ \E i \in env.pool : ParseLine(i)
    \/ ParseEnd

SpecToggle == InitToggle /\ [][NextToggle]_vars

\* the criteria the callers search and remove with
CriteriaSet ==
    { SearchCriteria,
      [SearchCriteria EXCEPT !.type = << "BLOCK" >>],
      [SearchCriteria EXCEPT !.type = << "TOGGLE" >>],
      [SearchCriteria EXCEPT !.scopeName = << N_s >>],
      [SearchCriteria EXCEPT !.annotation = << << "n" >> >>],
      [SearchCriteria EXCEPT !.signalName = << << "g" >> >>],
      [SearchCriteria EXCEPT !.signalName = << << "h" >> >>],
      [SearchCriteria EXCEPT !.isModule = << TRUE >>],
      [SearchCriteria EXCEPT !.isModule = << FALSE >>],
      [SearchCriteria EXCEPT !.type = << "TOGGLE" >>, !.annotation = << << "n" >> >>],
      [SearchCriteria EXCEPT !.type = << "BLOCK" >>, !.annotation = << << "n" >> >>,
                             !.scopeName = << N_s >>] }

\* the iteration orders of the scopes of data; every kind has one key in the
\* records the callers add, so the order of the other keys does not show
ScopeOrders(data) ==
    { order \o (CHOOSE rest \in Perms(KeysOf(data) \ DOMAIN data.scopes) : TRUE) :
        order \in Perms(DOMAIN data.scopes) }

\* the parser's database filled through the data model, searched and pruned
InitSearch == InitWith(Env({ }, { N_s, N_t }, 0, MaxSearchCalls), { ParserConfig }, "null")

NextSearch ==
    \/ \E n \in env.names, m \in BOOLEAN : GetOrCreateScope(data_, n, << >>, m)
    \/ CallAddExclusion
    \/ \E criteria \in CriteriaSet, iter \in ScopeOrders(heap[mgrData]) :
          Search(criteria, iter)
    \/ \E criteria \in CriteriaSet, iter \in ScopeOrders(heap[mgrData]) :
          RemoveExclusions(criteria, iter)

SpecSearch == InitSearch /\ [][NextSearch]_vars

\* the writers: the default one and one that sorts
WriterConfigs == { [WriterConfig EXCEPT !.sortExclusions = b] : b \in BOOLEAN }

\* a parser fed one document of two scopes and of records of every kind, whose
\* database is written unsorted and sorted under every iteration order; the
\* hash and the clock texts show in the CHECKSUM and Date lines only
InitWrite ==
    InitWith(Env(PoolOf({ L_Instance, L_Other, L_Annotation, L_Block, L_Block2, L_Toggle,
                          L_ToggleDown, L_Fsm, L_ScenarioB }),
                 { }, MaxDocLines, 0),
             { ParserConfig }, "null")

NextWrite ==
    \/ op.name = "construct" /\ ParseString
    \/ \E i \in env.pool : ParseLine(i)
    \/ ParseEnd
    \/ \E wcfg \in WriterConfigs, iter \in Perms(KeysOf(heap[data_])) :
          WriteToStringWith(wcfg, iter, [k \in HashedKeys(heap[data_]) |-> GoldenRatio],
                            << "M", "o", "n" >>)

SpecWrite == InitWrite /\ [][NextWrite]_vars

\* a parser fed one document of one scope, whose database the default writer
\* writes under every iteration order and every choice of std::hash
InitHash ==
    InitWith(Env(PoolOf({ L_Instance, L_Block, L_Block2, L_Toggle }), { }, MaxDocLines, 0),
             { ParserConfig }, "null")

NextHash ==
    \/ op.name = "construct" /\ ParseString
    \/ \E i \in env.pool : ParseLine(i)
    \/ ParseEnd
    \/ \E iter \in Perms(KeysOf(heap[data_])),
          hash \in [HashedKeys(heap[data_]) -> HashValues] :
          WriteToStringWith(WriterConfig, iter, hash, << "M", "o", "n" >>)

SpecHash == InitHash /\ [][NextHash]_vars

\* the parsers that validate checksums (the default) and that do not
ChecksumConfigs == { [ParserConfig EXCEPT !.validateChecksums = v] : v \in BOOLEAN }

\* a parser fed documents with CHECKSUM lines of digits, of digits and a
\* space, and of letters
InitChecksum ==
    InitWith(Env(PoolOf({ L_Checksum, L_ChecksumBad, L_ChecksumSpaced, L_Instance, L_Block }),
                 { }, MaxDocLines, 0),
             ChecksumConfigs, "null")

NextChecksum ==
    \/ ParseString
    \/ \E i \in env.pool : ParseLine(i)
    \/ ParseEnd

SpecChecksum == InitChecksum /\ [][NextChecksum]_vars

\* the sequences over S of length at most n
SeqsUpTo(S, n) == UNION { [1..k -> S] : k \in 0..n }

\* a parser, lenient or strict, handed one batch of a missing file and of a
\* file whose lines are drawn from the pool
InitBatch ==
    InitWith(Env(PoolOf({ L_Instance, L_Block, L_Bogus }), { }, MaxDocLines, 0),
             Configs, "null")

NextBatch ==
    \/ /\ op.name = "construct"
       /\ \E filenames \in SeqsUpTo({ F_Gone, F_Doc }, MaxFiles),
             continueOnError \in BOOLEAN :
             ParseFilesCall(filenames, continueOnError)
    \/ \E opens \in BOOLEAN : ParseFilesNext(opens)
    \/ \E i \in env.pool : ParseLine(i)
    \/ ParseEnd
    \/ ParseFilesCombine
    \/ ParseFilesReturn

SpecBatch == InitBatch /\ [][NextBatch]_vars

\* scope declarations with and without a CHECKSUM: line before them
InitScopes ==
    InitWith(Env(PoolOf({ L_Checksum, L_Instance, L_Other, L_Module, L_Block }),
                 { }, MaxDocLines, 0),
             Configs, "null")

NextScopes ==
    \/ ParseString
    \/ \E i \in env.pool : ParseLine(i)
    \/ ParseEnd

SpecScopes == InitScopes /\ [][NextScopes]_vars

\* Toggle lines with a bit index, parsed, written and parsed again
InitToggleTrip ==
    InitWith(Env(PoolOf({ L_Instance, L_ToggleBit, L_ToggleTight, L_ToggleBoth, L_ToggleDown }),
                 { }, MaxDocLines, 0),
             { ParserConfig }, "null")

NextToggleTrip ==
    \/ op.name = "construct" /\ ParseString
    \/ \E i \in env.pool : ParseLine(i)
    \/ ParseEnd
    \/ \E iter \in Perms(KeysOf(heap[data_])) :
          WriteToString(iter, [k \in HashedKeys(heap[data_]) |-> GoldenRatio],
                        << "M", "o", "n" >>)
    \/ ParseWritten

SpecToggleTrip == InitToggleTrip /\ [][NextToggleTrip]_vars

\* keyword lines whose quoted fields hold the text of a header field
InitClassify ==
    InitWith(Env(PoolOf({ L_Instance, L_Block, L_Annotation, L_BlockDate, L_AnnotationMode,
                          L_Date }),
                 { }, MaxDocLines, 0),
             Configs, "null")

NextClassify ==
    \/ ParseString
    \/ \E i \in env.pool : ParseLine(i)
    \/ ParseEnd

SpecClassify == InitClassify /\ [][NextClassify]_vars

\* parse calls of the three kinds, one after the other on one parser
InitSession ==
    InitWith(Env(PoolOf({ L_Checksum, L_Instance, L_Annotation, L_Block, L_Bogus }),
                 { }, MaxDocLines, 0),
             Configs, "null")

NextSession ==
    \/ ParseString
    \/ ParseStream
    \/ \E opens \in BOOLEAN : ParseFile(F_Doc, opens)
    \/ \E i \in env.pool : ParseLine(i)
    \/ ParseEnd

SpecSession == InitSession /\ [][NextSession]_vars

\* a database with file metadata, written and parsed again
InitMeta ==
    InitWith(Env(PoolOf({ L_GeneratedBy, L_FormatVersion, L_Date, L_ExclMode, L_Instance }),
                 { }, MaxLines, 0),
             { ParserConfig }, "null")

NextMeta ==
    \/ op.name = "construct" /\ ParseString
    \/ \E i \in env.pool : ParseLine(i)
    \/ ParseEnd
    \/ \E iter \in Perms(KeysOf(heap[data_])), now \in Clock :
          WriteToString(iter, [k \in HashedKeys(heap[data_]) |-> GoldenRatio], now)
    \/ ParseWritten

SpecMeta == InitMeta /\ [][NextMeta]_vars

\* a manager given the database of a caller, filled, cleared and asked
\* whether it is empty
InitManager == InitWith(Env({ }, { N_s }, 0, MaxCalls), { ParserConfig }, "d2")

NextManager ==
    \/ FillMetadata(TestMetadata)
    \/ CallGetOrCreateScope
    \/ \E o \in { held, "null" } : ManagerSetData(o)
    \/ ManagerClear
    \/ IsEmpty

SpecManager == InitManager /\ [][NextManager]_vars

\* one parse, into the fresh database of a new parser, of exclusion lines of
\* every kind before and after scope declarations
InitCounts ==
    InitWith(Env(PoolOf({ L_Instance, L_Other, L_Block, L_Block2, L_Toggle, L_Fsm,
                          L_Transition, L_ScenarioB }),
                 { }, MaxDocLines, 0),
             Configs, "null")

NextCounts ==
    \/ op.name = "construct" /\ ParseString
    \/ \E i \in env.pool : ParseLine(i)
    \/ ParseEnd

SpecCounts == InitCounts /\ [][NextCounts]_vars

\* parses interleaved with the calls of a caller on the parser's database
\* and on its own, and merges of the second into the first
InitKeys ==
    InitWith(Env(PoolOf({ L_Instance, L_Fsm, L_Transition }),
                 { N_top }, MaxKeyLines, MaxKeyCalls),
             { ParserConfig }, "d2")

NextKeys ==
    \/ ParseString
    \/ \E i \in env.pool : ParseLine(i)
    \/ ParseEnd
    \/ \E n \in env.names, c \in Checksums, m \in BOOLEAN : GetOrCreateScope(held, n, c, m)
    \/ \E n \in env.names, kind \in { "BLOCK", "TOGGLE", "FSM", "CONDITION" } :
          \E e \in RecordsOf(kind) : AddExclusion(held, n, kind, e)
    \/ \E overwriteExisting \in BOOLEAN : MergeData(overwriteExisting)

SpecKeys == InitKeys /\ [][NextKeys]_vars

\* batches of files parsed with and without mergeOnLoad
LoadConfigs == { [ParserConfig EXCEPT !.mergeOnLoad = g] : g \in BOOLEAN }

InitLoad ==
    InitWith(Env(PoolOf({ L_Instance, L_Other, L_Block }), { }, MaxDocLines, 0),
             LoadConfigs, "null")

NextLoad ==
    \/ /\ op.name = "construct"
       /\ \E filenames \in SeqsUpTo({ F_Gone, F_Doc }, MaxFiles),
             continueOnError \in BOOLEAN :
             ParseFilesCall(filenames, continueOnError)
    \/ \E opens \in BOOLEAN : ParseFilesNext(opens)
    \/ \E i \in env.pool : ParseLine(i)
    \/ ParseEnd
    \/ ParseFilesCombine
    \/ ParseFilesReturn

SpecLoad == InitLoad /\ [][NextLoad]_vars

\* the operations of the parser that touch its database, in any order
InitParserOps ==
    InitWith(Env(PoolOf({ L_Instance, L_Block }), { }, MaxDocLines, MaxCalls),
             LoadConfigs, "d2")

NextParserOps ==
    \/ ParseString
    \/ ParseStream
    \/ \E filename \in { F_Gone, F_Doc }, opens \in BOOLEAN : ParseFile(filename, opens)
    \/ \E i \in env.pool : ParseLine(i)
    \/ ParseEnd
    \/ \E o \in { held, "null" } : SetData(o)
    \/ Clear

SpecParserOps == InitParserOps /\ [][NextParserOps]_vars

\* exclusion lines whose quoted fields are missing or left open
InitQuotes ==
    InitWith(Env(PoolOf({ L_Instance, L_Block, L_BlockOpen, L_BlockBare, L_BlockHalf,
                          L_ToggleOpen, L_FsmOpen, L_TransitionBare, L_ConditionOpen }),
                 { }, MaxDocLines, 0),
             Configs, "null")

NextQuotes ==
    \/ ParseString
    \/ \E i \in env.pool : ParseLine(i)
    \/ ParseEnd

SpecQuotes == InitQuotes /\ [][NextQuotes]_vars

\* the parser's database and a database of the caller, filled through the
\* data model and merged
InitData == InitWith(Env({ }, { N_s, N_t }, 0, MaxCalls), { ParserConfig }, "d2")

NextData ==
    \/ CallGetOrCreateScope
    \/ CallAddExclusion
    \/ \E overwriteExisting \in BOOLEAN : MergeData(overwriteExisting)
    \/ GetStatistics

SpecData == InitData /\ [][NextData]_vars

\* a parser fed one well-formed document, whose database is written and the
\* text parsed again
InitRoundTrip ==
    InitWith(Env(PoolOf({ L_Instance, L_Other, L_Annotation, L_Block, L_Toggle, L_Fsm,
                          L_Transition, L_ScenarioB }),
                 { }, MaxDocLines, 0),
             { ParserConfig }, "null")

NextRoundTrip ==
    \/ op.name = "construct" /\ ParseString
    \/ \E i \in env.pool : ParseLine(i)
    \/ ParseEnd
    \/ \E iter \in Perms(KeysOf(heap[data_])),
          hash \in [HashedKeys(heap[data_]) -> HashValues], now \in Clock :
          WriteToString(iter, hash, now)
    \/ ParseWritten

SpecRoundTrip == InitRoundTrip /\ [][NextRoundTrip]_vars

\* a parser fed files
InitFile ==
    InitWith(Env(PoolOf({ L_Instance, L_Block, L_Annotation }), { }, MaxLines, 0),
             FileConfigs, "null")

NextFile ==
    \/ \E filename \in FileNames, opens \in BOOLEAN : ParseFile(filename, opens)
    \/ \E i \in env.pool : ParseLine(i)
    \/ ParseEnd

SpecFile == InitFile /\ [][NextFile]_vars

\* the matcher, and the manager's search for scope names
InitMatch ==
    \E pattern \in Patterns, str \in Strings :
        InitWith([Env({ }, { S_Cpu0Core, S_Cpu0Io, S_abc, << "a" >> }, 0, MaxScopeCalls)
                     EXCEPT !.pattern = pattern, !.str = str],
                 { ParserConfig }, "null")

NextMatch ==
    \/ \E n \in env.names : GetOrCreateScope(data_, n, << >>, FALSE)
    \/ \E acceptStacked \in BOOLEAN : Matches(env.pattern, env.str, acceptStacked)
    \/ \E acceptStacked \in BOOLEAN : FindScopesMatching(env.pattern, acceptStacked)

SpecMatch == InitMatch /\ [][NextMatch]_vars

(***************************************************************************)
(* Round trip of a parsed database through the writer                      *)
(***************************************************************************)

\* what identifies the records of a scope: the kind, the key of the container,
\* the place in the vector (0 for the maps keyed by identifier), then the
\* identifier, the checksum and the annotation of the record
RecordsOfScope(scope) ==
    { << "BLOCK", k, 0, scope.blockExclusions[k].blockId,
         scope.blockExclusions[k].checksum, scope.blockExclusions[k].annotation >> :
        k \in DOMAIN scope.blockExclusions }
    \cup { << "CONDITION", k, 0, scope.conditionExclusions[k].conditionId,
              scope.conditionExclusions[k].checksum,
              scope.conditionExclusions[k].annotation >> :
             k \in DOMAIN scope.conditionExclusions }
    \cup UNION { { << "TOGGLE", k, j, scope.toggleExclusions[k][j].signalName,
                      scope.toggleExclusions[k][j].direction,
                      scope.toggleExclusions[k][j].annotation >> :
                     j \in 1..Len(scope.toggleExclusions[k]) } :
                 k \in DOMAIN scope.toggleExclusions }
    \cup UNION { { << "FSM", k, j, scope.fsmExclusions[k][j].fsmName,
                      scope.fsmExclusions[k][j].checksum,
                      scope.fsmExclusions[k][j].annotation >> :
                     j \in 1..Len(scope.fsmExclusions[k]) } :
                 k \in DOMAIN scope.fsmExclusions }

\* the records of a database, each with the name of its scope
RecordsOfData(data) ==
    UNION { { << n, r >> : r \in RecordsOfScope(data.scopes[n]) } : n \in DOMAIN data.scopes }

\* the database the parser holds and the database parsed from its written text
SameCountsAndRecords(D, D2) ==
    /\ getScopeCount(D2) = getScopeCount(D)
    /\ DOMAIN D2.scopes = DOMAIN D.scopes
    /\ getTotalExclusionCount(D2) = getTotalExclusionCount(D)
    /\ getExclusionCountsByType(D2) = getExclusionCountsByType(D)
    /\ RecordsOfData(D2) = RecordsOfData(D)

ListCount(data, n, kind) ==
    IF n \notin DOMAIN data.scopes THEN 0
    ELSE IF kind = "TOGGLE" THEN SumLens(data.scopes[n].toggleExclusions)
    ELSE SumLens(data.scopes[n].fsmExclusions)

\* every record of the map before is in the map after, unchanged
KeptById(before, after) ==
    \A k \in DOMAIN before : k \in DOMAIN after /\ after[k] = before[k]

\* A2 is A after A.merge(B, false)
MergedKeeping(A, B, A2) ==
    /\ DOMAIN A2.scopes = (DOMAIN A.scopes) \cup (DOMAIN B.scopes)
    /\ \A n \in DOMAIN A.scopes :
           /\ KeptById(A.scopes[n].blockExclusions, A2.scopes[n].blockExclusions)
           /\ KeptById(A.scopes[n].conditionExclusions, A2.scopes[n].conditionExclusions)
    /\ \A n \in DOMAIN A2.scopes : \A kind \in { "TOGGLE", "FSM" } :
           ListCount(A2, n, kind) = ListCount(A, n, kind) + ListCount(B, n, kind)

\* C2: A.merge(B, overwriteExisting = false) keeps every Block and Condition
\* record A held, unchanged, also where B holds a record of the same id in the
\* same scope; for every scope A's Toggle count and Fsm count grow by what B
\* holds for that scope; A's scope names afterwards are the union of both.
C2_MergeKeeps ==
    [][(op'.name = "mergeData" /\ op'.arg = FALSE)
         => MergedKeeping(heap[mgrData], heap[held], heap'[mgrData])]_stepVars

\* after a merge without overwriting, A holds a Block whose id B also holds in
\* the same scope, and A's record is not B's
C2_Witness ==
    /\ op.name = "mergeData"
    /\ op.arg = FALSE
    /\ \E n \in (DOMAIN heap[mgrData].scopes) \cap (DOMAIN heap[held].scopes) :
           \E k \in (DOMAIN heap[mgrData].scopes[n].blockExclusions)
                      \cap (DOMAIN heap[held].scopes[n].blockExclusions) :
               heap[mgrData].scopes[n].blockExclusions[k]
                   # heap[held].scopes[n].blockExclusions[k]

\* A2 is A after A.merge(B, true)
MergedOverwriting(A, B, A2) ==
    /\ DOMAIN A2.scopes = (DOMAIN A.scopes) \cup (DOMAIN B.scopes)
    /\ \A n \in DOMAIN B.scopes : A2.scopes[n] = B.scopes[n]
    /\ \A n \in (DOMAIN A.scopes) \ (DOMAIN B.scopes) : A2.scopes[n] = A.scopes[n]

\* C3: A.merge(B, overwriteExisting = true) leaves, for every scope name of B,
\* B's scope as a whole in A (checksum, isModule and the four containers), and
\* leaves every scope of A whose name B lacks unchanged.
C3_MergeOverwrites ==
    [][(op'.name = "mergeData" /\ op'.arg = TRUE)
         => MergedOverwriting(heap[mgrData], heap[held], heap'[mgrData])]_stepVars

\* after a merge with overwriting, A holds a module scope of B with B's
\* checksum, and a scope of its own with a record that B has no scope for
C3_Witness ==
    /\ op.name = "mergeData"
    /\ op.arg = TRUE
    /\ \E n \in DOMAIN heap[held].scopes :
           /\ heap[held].scopes[n].isModule
           /\ heap[held].scopes[n].checksum # << >>
           /\ heap[mgrData].scopes[n] = heap[held].scopes[n]
    /\ \E n \in (DOMAIN heap[mgrData].scopes) \ (DOMAIN heap[held].scopes) :
           ScopeTotalExclusionCount(heap[mgrData].scopes[n]) > 0

(***************************************************************************)
(* Scope creation                                                          *)
(***************************************************************************)

\* every scope of the database before is in the database after, with the
\* checksum and the isModule it had
ScopesKeepIdentity(before, after) ==
    \A n \in DOMAIN before.scopes :
        /\ n \in DOMAIN after.scopes
        /\ after.scopes[n].checksum = before.scopes[n].checksum
        /\ after.scopes[n].isModule = before.scopes[n].isModule

\* C4: getOrCreateScope(n, c2, m2) on a database that holds a scope named n
\* returns that scope and leaves the database as it was, whatever c2 and m2
\* are; an INSTANCE: or MODULE: line naming a scope the parser's database
\* holds leaves the scopes as they were; and no line of a document changes the
\* checksum or the isModule of a scope the database holds.
C4_GetOrCreateScopeIdempotent ==
    [][/\ (/\ op'.name = "getOrCreateScope"
           /\ op'.arg.name \in DOMAIN heap[op'.arg.obj].scopes)
          => /\ heap' = heap
             /\ answer' = heap[op'.arg.obj].scopes[op'.arg.name]
       /\ (/\ op'.name = "parseLine"
           /\ Pool[op'.arg] \in { L_Instance, L_Module }
           /\ N_top \in DOMAIN heap[data_].scopes)
          => heap'[data_].scopes = heap[data_].scopes
       /\ op'.name = "parseLine" => ScopesKeepIdentity(heap[data_], heap'[data_])
      ]_stepVars

\* a MODULE:top line has been read by a parser whose database holds top as an
\* instance scope
C4_Witness ==
    /\ op.name = "parseLine"
    /\ Pool[op.arg] = L_Module
    /\ N_top \in DOMAIN heap[data_].scopes
    /\ ~heap[data_].scopes[N_top].isModule

(***************************************************************************)
(* Aggregate counts                                                        *)
(***************************************************************************)

\* the aggregates of the database data agree with its records counted one
\* by one
CountsAgree(data) ==
    LET records == RecordsOfData(data)
        OfKind(kind) == Cardinality({ r \in records : r[2][1] = kind })
        byType == getExclusionCountsByType(data)
        stats == getStatistics(data)
    IN  /\ \A n \in DOMAIN data.scopes :
               ScopeTotalExclusionCount(data.scopes[n])
                   = Cardinality(RecordsOfScope(data.scopes[n]))
        /\ getTotalExclusionCount(data) = Cardinality(records)
        /\ byType = [BLOCK |-> OfKind("BLOCK"), TOGGLE |-> OfKind("TOGGLE"),
                     FSM |-> OfKind("FSM"), CONDITION |-> OfKind("CONDITION")]
        /\ getTotalExclusionCount(data)
               = byType.BLOCK + byType.TOGGLE + byType.FSM + byType.CONDITION
        /\ stats.totalExclusions = getTotalExclusionCount(data)
        /\ stats.exclusionsByType = byType
        /\ stats.totalScopes = getScopeCount(data)
        /\ stats.totalScopes = stats.moduleScopes + stats.instanceScopes
        /\ stats.moduleScopes
               = Cardinality({ n \in DOMAIN data.scopes : data.scopes[n].isModule })
        /\ stats.annotatedExclusions
               = Cardinality({ r \in records : r[2][6] # << >> })

\* C5: in every reachable state, for every database the parser, its manager or
\* the caller holds: a scope's total is the
\* number of its blocks and conditions plus the lengths of its toggle and fsm
\* lists; the database total is the sum of the scope totals and of the four
\* per-kind counts; getStatistics reports that total, totalScopes =
\* moduleScopes + instanceScopes, and as annotatedExclusions the number of
\* records with a non-empty annotation.
C5_CountsAgree ==
    /\ \A o \in { data_, mgrData, held } \ { "null" } : CountsAgree(heap[o])
    /\ op.name = "getStatistics" => answer = getStatistics(heap[mgrData])

\* getStatistics has answered for a database with a module scope, an fsm
\* record, and annotated records beside records without annotation
C5_Witness ==
    /\ op.name = "getStatistics"
    /\ answer.moduleScopes > 0
    /\ answer.exclusionsByType.FSM > 0
    /\ answer.annotatedExclusions > 0
    /\ answer.annotatedExclusions < answer.totalExclusions

(***************************************************************************)
(* Annotations                                                             *)
(***************************************************************************)

\* the lines that declare an exclusion
IsExclusionLine(line) ==
    \/ StartsWith(line, K_Block)
    \/ StartsWith(line, K_Toggle)
    \/ StartsWith(line, K_Fsm)
    \/ StartsWith(line, K_Condition)
    \/ StartsWith(line, K_Transition)

\* the annotation an exclusion line is due after the lines read (Pool
\* positions): the text of an ANNOTATION: line read since the last exclusion
\* line, or none
AnnotationDue(read) ==
    LET from == MaxOr({ j \in 1..Len(read) : IsExclusionLine(Pool[read[j]]) }, 0)
    IN  IF \E j \in (from + 1)..Len(read) : Pool[read[j]] = L_Annotation
        THEN << "w", "h", "y" >>
        ELSE << >>

\* C6: the text of an ANNOTATION: line goes to the first exclusion line that
\* follows it and to no other record: the Block just stored carries the text
\* of an ANNOTATION: line read since the preceding exclusion line, and an empty
\* annotation where there is none.
C6_AnnotationScoping ==
    (op.name = "parseLine" /\ Pool[op.arg] = L_Block /\ currentScope_ # << >>)
        => heap[data_].scopes[currentScope_].blockExclusions[<< "1" >>].annotation
               = AnnotationDue(SubSeq(consumed, 1, Len(consumed) - 1))

(***************************************************************************)
(* Wildcard patterns                                                       *)
(***************************************************************************)

RECURSIVE Wildcard(_, _)
\* the whole of str matches pattern, where * stands for any run of
\* characters, ? for one character and every other character for itself
Wildcard(pattern, str) ==
    IF pattern = << >> THEN str = << >>
    ELSE CASE Head(pattern) = "*" ->
                \/ Wildcard(Tail(pattern), str)
                \/ str # << >> /\ Wildcard(pattern, Tail(str))
           [] Head(pattern) = "?" ->
                str # << >> /\ Wildcard(Tail(pattern), Tail(str))
           [] OTHER ->
                /\ str # << >>
                /\ Head(str) = Head(pattern)
                /\ Wildcard(Tail(pattern), Tail(str))

\* C7: PatternMatcher::matches(pattern, s) is true exactly when the whole of s
\* matches the pattern with * for any run of characters, ? for exactly one
\* character and every other character for itself, and findScopesMatching
\* returns exactly the scope names that match so.
C7_WildcardMatching ==
    /\ op.name = "matches" => answer = Wildcard(env.pattern, env.str)
    /\ op.name = "findScopesMatching"
           => answer = { n \in DOMAIN heap[mgrData].scopes : Wildcard(env.pattern, n) }

(***************************************************************************)
(* The scenarios of the format                                             *)
(***************************************************************************)

\* C8: parsing INSTANCE:top "999" and then Block 161 "1104666086" "x = 1'b0;"
\* into a fresh database yields exactly one scope, named top, an instance
\* scope with checksum 999, holding exactly the Block 161 with checksum
\* 1104666086 and source code x = 1'b0;
C8_ScenarioA ==
    (/\ op.name = "parseEnd"
     /\ consumed = << LineNo(L_ScenarioA1), LineNo(L_ScenarioA2) >>
     /\ linesRead = Len(consumed))
        => /\ DOMAIN heap[data_].scopes = { N_top }
           /\ heap[data_].scopes[N_top]
                  = addBlockExclusion(
                        ExclusionScope(N_top, << "9", "9", "9" >>, FALSE),
                        BlockExclusion(<< "1", "6", "1" >>, << "1", "1", "0", "4", "6", "6", "6", "0", "8", "6" >>,
                                       << "x", " ", "=", " ", "1", "'", "b", "0", ";" >>, << >>))

\* C9: the line Condition 2 "111" "(a && b) 1 -1" (1 "01") read inside a scope
\* yields a ConditionExclusion with expression (a && b), parameters 1 -1 and
\* coverage 1 "01".
C9_ScenarioB ==
    (op.name = "parseLine" /\ Pool[op.arg] = L_ScenarioB /\ currentScope_ # << >>)
        => LET c == heap[data_].scopes[currentScope_].conditionExclusions[<< "2" >>]
           IN  /\ c.expression = << "(", "a", " ", "&", "&", " ", "b", ")" >>
               /\ c.parameters = << "1", " ", "-", "1" >>
               /\ c.coverage = << "1", " ", "\"", "0", "1", "\"" >>

(***************************************************************************)
(* The guards of parseFile                                                 *)
(***************************************************************************)

\* C10: parseFile on a file that does not exist, or whose size exceeds
\* config.maxFileSize, returns success = false with an error message and zero
\* lines processed, reads no line, and leaves the parser's database, scopes
\* and metadata, as it was before the call.
C10_FileGuard ==
    [][(/\ op'.name = "parseFile"
        /\ \/ op'.arg = F_Gone
           \/ getFileSize(op'.arg) > config_.maxFileSize)
         => /\ ~ret'.success
            /\ ret'.errorMessage # NoMessage
            /\ ret'.linesProcessed = 0
            /\ pc' = "idle"
            /\ heap' = heap
            /\ data_' = data_
            /\ mgrData' = mgrData]_stepVars

\* parseFile has refused a file above the size ceiling while the parser's
\* database holds a scope with a record from an earlier file
C10_Witness ==
    /\ op.name = "parseFile"
    /\ op.arg = F_Huge
    /\ ~ret.success
    /\ ret.errorMessage.kind = "File too large"
    /\ \E n \in DOMAIN heap[data_].scopes :
           ScopeTotalExclusionCount(heap[data_].scopes[n]) > 0

(***************************************************************************)
(* Failed parses                                                           *)
(***************************************************************************)

\* C11: with mergeOnLoad disabled, a parse call that ends with success =
\* false leaves the database the caller held from getData() before the call
\* untouched, and the parser's database after the call is a fresh, empty one.
\* Stated for the first parse call of a parser nobody has filled: the
\* database getData() gave before the call is the one the constructor made,
\* and it was empty.
C11_FailedParseLeavesDatabase ==
    (/\ pc = "idle"
     /\ op.name = "parseLine"
     /\ ~ret.success
     /\ ~config_.mergeOnLoad
     /\ calls = 0
     /\ linesRead = Len(consumed))
        => /\ heap["d1"] = ExclusionData(<< >>)
           /\ heap[data_] = ExclusionData(<< >>)

(***************************************************************************)
(* Unrecognized lines                                                      *)
(***************************************************************************)

\* no classifier of parseStream's chain takes the line in the session st
NoClassifierRecognises(st, line, config) ==
    /\ ~parseHeader(st, line).ok
    /\ ~parseChecksum(st, line, config).ok
    /\ ~parseScope(st, line).ok
    /\ ~parseAnnotation(st, line).ok
    /\ ~parseBlockExclusion(st, line).ok
    /\ ~parseToggleExclusion(st, line).ok
    /\ ~parseFsmExclusion(st, line).ok
    /\ ~parseConditionExclusion(st, line).ok
    /\ ~parseTransition(st, line).ok

\* the step reads a non-blank, non-comment line that no classifier recognises
ReadsUnrecognizedLine ==
    /\ pc = "parsing"
    /\ op'.name = "parseLine"
    /\ trim(Pool[op'.arg]) # << >>
    /\ ~isComment(trim(Pool[op'.arg]))
    /\ NoClassifierRecognises([Session EXCEPT !.currentLineNumber_ = @ + 1],
                              trim(Pool[op'.arg]), config_)

\* C12: a non-blank, non-comment line that no classifier recognises adds, in
\* lenient mode, one warning carrying its line number, the parse goes on and
\* the call returns success = true at the end of input; in strict mode the
\* parse stops at that line with success = false and an error message
\* carrying that line's number, and no later line changes the database.
C12_UnrecognizedLine ==
    [][ /\ (ReadsUnrecognizedLine /\ ~config_.strictMode)
            => /\ Len(result'.warnings) = Len(result.warnings) + 1
               /\ result'.warnings[Len(result'.warnings)].line = Len(consumed) + 1
               /\ pc' = "parsing"
               /\ heap' = heap
        /\ (pc = "parsing" /\ op'.name = "parseEnd" /\ ~config_.strictMode)
            => /\ ret'.success
               /\ ret'.warnings = result.warnings
        /\ (ReadsUnrecognizedLine /\ config_.strictMode)
            => /\ pc' = "idle"
               /\ ~ret'.success
               /\ ret'.errorMessage.kind = "Unrecognized line format"
               /\ ret'.errorMessage.line = Len(consumed) + 1
               /\ heap' = heap
      ]_stepVars

\* a strict parse has stopped at an unrecognized second line, and a lenient
\* parse has returned with the warning of an unrecognized line
C12_Witness ==
    /\ pc = "idle"
    /\ op.name = "parseLine"
    /\ config_.strictMode
    /\ Len(consumed) = 2
    /\ ~ret.success
    /\ ret.errorMessage.line = 2

(***************************************************************************)
(* Toggle direction                                                        *)
(***************************************************************************)

\* the third run of non-space characters of a line, or << >>
ThirdToken(line) ==
    Let(TokenStart(line, 0), LAMBDA s1 :
    Let(IF s1 = NPOS THEN NPOS ELSE TokenStart(line, TokenEnd(line, s1)), LAMBDA s2 :
    Let(IF s2 = NPOS THEN NPOS ELSE TokenStart(line, TokenEnd(line, s2)), LAMBDA s3 :
        IF s3 = NPOS THEN << >> ELSE Substr(line, s3, TokenEnd(line, s3) - s3))))

\* a token without its bit index: the characters before the first '['
BeforeBracket(token) ==
    SubSeq(token, 1, MinOr({ i \in 1..Len(token) : token[i] = "[" }, Len(token) + 1) - 1)

\* the direction and the signal name a Toggle line of the documented form
\* "Toggle [0to1|1to0] <signal> .." asks for
ToggleAsked(line) ==
    IF SecondToken(line) = <<"0", "t", "o", "1">> /\ ThirdToken(line) # << >>
    THEN [direction |-> "ZERO_TO_ONE", signalName |-> BeforeBracket(ThirdToken(line))]
    ELSE IF SecondToken(line) = <<"1", "t", "o", "0">> /\ ThirdToken(line) # << >>
    THEN [direction |-> "ONE_TO_ZERO", signalName |-> BeforeBracket(ThirdToken(line))]
    ELSE [direction |-> "BOTH", signalName |-> BeforeBracket(SecondToken(line))]

\* the parser has just read a Toggle line inside a scope
ToggleLineRead ==
    /\ op.name = "parseLine"
    /\ StartsWith(trim(Pool[op.arg]), <<"T", "o", "g", "g", "l", "e", " ">>)
    /\ currentScope_ # << >>

\* the record at the back of the list of signal name in the current scope
LastToggle(name) ==
    Let(heap[data_].scopes[currentScope_].toggleExclusions[name], LAMBDA list :
        list[Len(list)])

\* C13: in a Toggle line the token 0to1 right after the keyword gives
\* direction ZERO_TO_ONE and 1to0 gives ONE_TO_ZERO; with no directional token
\* the direction is BOTH and the first token is the signal name.
C13_ToggleDirection ==
    ToggleLineRead =>
        Let(ToggleAsked(trim(Pool[op.arg])), LAMBDA asked :
            /\ currentScope_ \in DOMAIN heap[data_].scopes
            /\ asked.signalName \in DOMAIN heap[data_].scopes[currentScope_].toggleExclusions
            /\ LastToggle(asked.signalName).direction = asked.direction
            /\ LastToggle(asked.signalName).signalName = asked.signalName)

\* one scope holds a ONE_TO_ZERO record of clk and a BOTH record of sig, the
\* second one just read
C13_Witness ==
    /\ ToggleLineRead
    /\ Pool[op.arg] = L_ToggleBoth
    /\ LastToggle(<<"s", "i", "g">>).direction = "BOTH"
    /\ <<"c", "l", "k">> \in DOMAIN heap[data_].scopes[currentScope_].toggleExclusions
    /\ LastToggle(<<"c", "l", "k">>).direction = "ONE_TO_ZERO"

(***************************************************************************)
(* Search and removal                                                      *)
(***************************************************************************)

\* part occurs in text
Contains(text, part) ==
    \E i \in 0..(Len(text) - Len(part)) : SubSeq(text, i + 1, i + Len(part)) = part

\* the record r of RecordsOfScope(scope), in the scope named n, satisfies
\* every criterion that is set; the signal-name criterion is one on toggles
Satisfies(criteria, n, scope, r) ==
    /\ criteria.type = << >> \/ criteria.type[1] = r[1]
    /\ criteria.scopeName = << >> \/ Contains(n, criteria.scopeName[1])
    /\ criteria.annotation = << >> \/ Contains(r[6], criteria.annotation[1])
    /\ criteria.signalName = << >> \/ r[1] # "TOGGLE" \/ Contains(r[2], criteria.signalName[1])
    /\ criteria.isModule = << >> \/ scope.isModule = criteria.isModule[1]

\* the records of data that satisfy criteria, each with the name of its scope
Matching(data, criteria) ==
    { nr \in RecordsOfData(data) : Satisfies(criteria, nr[1], data.scopes[nr[1]], nr[2]) }

\* how often pair stands in the list pairs
PairCount(pairs, pair) == Cardinality({ i \in 1..Len(pairs) : pairs[i] = pair })

\* C14: search(criteria) returns one (scopeName, kind) pair for each exclusion
\* record that satisfies every criterion that is set and for no other record;
\* a criterion that is not set restricts nothing.
C14_SearchReturnsMatches ==
    op.name = "search" =>
        /\ Len(answer) = Cardinality(Matching(heap[mgrData], op.arg))
        /\ \A n \in DOMAIN heap[mgrData].scopes :
             \A kind \in { "BLOCK", "TOGGLE", "FSM", "CONDITION" } :
                PairCount(answer, << n, kind >>)
                    = Cardinality({ nr \in Matching(heap[mgrData], op.arg) :
                                      nr[1] = n /\ nr[2][1] = kind })

\* a search for annotated toggles has returned one pair and left out the
\* other record of the database
C14_Witness ==
    /\ op.name = "search"
    /\ op.arg.type = << "TOGGLE" >>
    /\ op.arg.annotation # << >>
    /\ Len(answer) = 1
    /\ getTotalExclusionCount(heap[mgrData]) = 2

\* C15: removeExclusions(criteria) deletes every exclusion that
\* search(criteria) reports before the call and returns the number deleted:
\* afterwards search(criteria) is empty, the database total has dropped by the
\* returned number, and records that did not match are unchanged.
C15_RemoveDeletesMatches ==
    [][ op'.name = "removeExclusions" =>
          /\ answer' = Cardinality(Matching(heap[mgrData], op'.arg))
          /\ Matching(heap'[mgrData], op'.arg) = { }
          /\ getTotalExclusionCount(heap'[mgrData])
                = getTotalExclusionCount(heap[mgrData]) - answer'
          /\ RecordsOfData(heap'[mgrData])
                = RecordsOfData(heap[mgrData]) \ Matching(heap[mgrData], op'.arg)
      ]_stepVars

(***************************************************************************)
(* Emission order                                                          *)
(***************************************************************************)

\* what a written line is, by the keyword it begins with
LineKind(l) ==
    IF StartsWith(l, K_CHECKSUM) THEN "CHECKSUM"
    ELSE IF StartsWith(l, K_MODULE) \/ StartsWith(l, K_INSTANCE) THEN "SCOPE"
    ELSE IF StartsWith(l, K_ANNOTATION) THEN "ANNOTATION"
    ELSE IF StartsWith(l, K_Block) THEN "BLOCK"
    ELSE IF StartsWith(l, K_Toggle) THEN "TOGGLE"
    ELSE IF StartsWith(l, K_Fsm) \/ StartsWith(l, K_Transition) THEN "FSM"
    ELSE IF StartsWith(l, K_Condition) THEN "CONDITION"
    ELSE "OTHER"

\* the place of a line in the order of a scope's lines
LineRank(l) ==
    CASE LineKind(l) = "CHECKSUM" -> 0
      [] LineKind(l) = "SCOPE" -> 1
      [] LineKind(l) = "BLOCK" -> 2
      [] LineKind(l) = "TOGGLE" -> 3
      [] LineKind(l) = "FSM" -> 4
      [] LineKind(l) = "CONDITION" -> 5
      [] OTHER -> 6

\* the key of the container the record of an exclusion line is kept under
LineKey(l) ==
    IF LineKind(l) = "TOGGLE" THEN ToggleAsked(l).signalName
    ELSE IF StartsWith(l, K_Transition) THEN K_transition
    ELSE SecondToken(l)

\* the scope name of a MODULE:/INSTANCE: line
ScopeNameOf(l) ==
    IF StartsWith(l, K_MODULE) THEN SubSeq(l, Len(K_MODULE) + 1, Len(l))
    ELSE SubSeq(l, Len(K_INSTANCE) + 1, Len(l))

\* the scope the line k of lines stands in
ScopeOfLine(lines, k) ==
    ScopeNameOf(lines[SetMax({ j \in 1..k : LineKind(lines[j]) = "SCOPE" })])

\* a is before b in lexicographic order
LexLess(a, b) ==
    \E i \in 1..Len(b) :
        /\ Len(a) >= i - 1
        /\ SubSeq(a, 1, i - 1) = SubSeq(b, 1, i - 1)
        /\ Len(a) = i - 1 \/ Code(a[i]) < Code(b[i])

\* the lines of a written text that are not comments of the header
WrittenBody(text) == SelectSeq(text, LAMBDA l : ~StartsWith(l, << "/", "/" >>))

\* CHECKSUM, declaration, Block, Toggle, Fsm/Transition, Condition lines come
\* in this order in every scope
Grouped(e) ==
    \A k \in 1..Len(e) :
        /\ LineRank(e[k]) <= 5
        /\ k = 1 => LineRank(e[k]) <= 1
        /\ k = Len(e) => LineRank(e[k]) # 0
        /\ k > 1 =>
             /\ LineRank(e[k - 1]) = 0 => LineRank(e[k]) = 1
             /\ LineRank(e[k]) = 0 => LineRank(e[k - 1]) >= 1
             /\ LineRank(e[k]) >= 2 =>
                  LineRank(e[k - 1]) >= 1 /\ LineRank(e[k - 1]) <= LineRank(e[k])

\* the annotation written right before the exclusion line k of body
AnnotationBefore(body, k) ==
    IF k > 1 /\ LineKind(body[k - 1]) = "ANNOTATION"
    THEN SubSeq(body[k - 1], Len(K_ANNOTATION) + 3, Len(body[k - 1]) - 1)
    ELSE << >>

\* every ANNOTATION line stands right before an exclusion line, and every
\* exclusion line stands for a record of its scope with the annotation
\* written before it
AnnotationsPlaced(body, data) ==
    \A k \in 1..Len(body) :
        /\ LineKind(body[k]) = "ANNOTATION" =>
             /\ k < Len(body)
             /\ LineRank(body[k + 1]) \in 2..5
             /\ body[k] = K_ANNOTATION \o << " ", QUOTE >> \o AnnotationBefore(body, k + 1)
                              \o << QUOTE >>
        /\ LineRank(body[k]) \in 2..5 =>
             /\ ScopeOfLine(body, k) \in DOMAIN data.scopes
             /\ \E r \in RecordsOfScope(data.scopes[ScopeOfLine(body, k)]) :
                  /\ r[1] = LineKind(body[k])
                  /\ r[2] = LineKey(body[k])
                  /\ r[6] = AnnotationBefore(body, k)

\* scope names ascend, and so do the keys of the lines of one kind in a scope
SortedLines(e) ==
    /\ \A j, k \in 1..Len(e) :
         (j < k /\ LineRank(e[j]) = 1 /\ LineRank(e[k]) = 1)
            => LexLess(ScopeNameOf(e[j]), ScopeNameOf(e[k]))
    /\ \A k \in 2..Len(e) :
         (LineRank(e[k]) >= 2 /\ LineRank(e[k - 1]) = LineRank(e[k]))
            => ~LexLess(LineKey(e[k]), LineKey(e[k - 1]))

\* the Toggle lines of one signal of one scope are the records of its list,
\* in the order of the list
InsertionOrderKept(e, data) ==
    \A n \in DOMAIN data.scopes : \A s \in DOMAIN data.scopes[n].toggleExclusions :
        LET K == { k \in 1..Len(e) : /\ LineKind(e[k]) = "TOGGLE"
                                      /\ ScopeOfLine(e, k) = n
                                      /\ LineKey(e[k]) = s }
            list == data.scopes[n].toggleExclusions[s]
        IN  /\ Cardinality(K) = Len(list)
            /\ \A k \in K :
                 ToggleAsked(e[k]).direction
                    = list[Cardinality({ j \in K : j <= k })].direction

ChecksumsWritten(text) ==
    LET body == WrittenBody(text)
    IN  { << ScopeNameOf(body[k + 1]), body[k] >> :
            k \in { j \in 1..(Len(body) - 1) : LineKind(body[j]) = "CHECKSUM" } }

\* C17: when a scope has no checksum and generateChecksums is enabled, the
\* checksum the writer emits depends only on the set of the scope's exclusion
\* identifiers: whatever order the containers are traversed in, the same
\* database is written with the same checksums.
C17_ChecksumOrderIndependent ==
    (op.name = "writeToStringWith" /\ op.arg.wcfg.generateChecksums) =>
        \A iter \in Perms(KeysOf(heap[data_])) :
            ChecksumsWritten(writeToString(op.arg.wcfg, heap[data_], iter, op.arg.hash,
                                           << >>))
                = ChecksumsWritten(answer)

(***************************************************************************)
(* Checksum shape                                                          *)
(***************************************************************************)

\* the value of a CHECKSUM: "<value>" line
ChecksumValue(l) ==
    Let({ i \in 1..Len(l) : l[i] = QUOTE }, LAMBDA q :
        SubSeq(l, SetMin(q) + 1, SetMax(q) - 1))

\* a CHECKSUM: line whose value holds a character that is neither a digit
\* nor a space
BadChecksumLine(l) ==
    /\ StartsWith(l, K_CHECKSUM)
    /\ \E i \in 1..Len(ChecksumValue(l)) :
         ChecksumValue(l)[i] \notin { "0", "1", "2", "3", "4", "5", "6", "7", "8", "9", " " }

\* the warnings of a result that are about the shape of a checksum
ChecksumWarnings(res) ==
    { k \in 1..Len(res.warnings) : res.warnings[k].kind = "Invalid checksum format" }

\* C18: with validateChecksums enabled, a CHECKSUM: line whose value contains
\* a character that is neither a digit nor a space adds a warning to the
\* ParseResult returned by that parse call, the parse still succeeds and the
\* value is still used as the scope checksum; a value made only of digits and
\* spaces adds no warning.  (The scope checksum is the one of the scope that
\* the declaration after the CHECKSUM: line creates in an empty database.)
C18_ChecksumShapeWarning ==
    (pc = "idle" /\ op.name = "parseEnd" /\ config_.validateChecksums) =>
        /\ ret.success
        /\ Cardinality(ChecksumWarnings(ret))
              = Cardinality({ k \in 1..Len(consumed) : BadChecksumLine(Pool[consumed[k]]) })
        /\ \A k \in 1..(Len(consumed) - 1) :
             (/\ StartsWith(Pool[consumed[k]], K_CHECKSUM)
              /\ Pool[consumed[k + 1]] = L_Instance
              /\ \A j \in 1..k : Pool[consumed[j]] # L_Instance
              /\ linesRead = Len(consumed))
                => heap[data_].scopes[N_top].checksum = ChecksumValue(Pool[consumed[k]])

(***************************************************************************)
(* Batch parsing                                                           *)
(***************************************************************************)

RECURSIVE SumOfSeq(_)
\* the sum of a sequence of numbers
SumOfSeq(numbers) ==
    IF numbers = << >> THEN 0 ELSE Head(numbers) + SumOfSeq(Tail(numbers))

\* the sum of Field(result) over the files attempted
SumOfResults(attempted, Field(_)) ==
    SumOfSeq([i \in 1..Len(attempted) |-> Field(attempted[i].result)])

\* the files attempted whose parse failed
FailedFiles(attempted) == { i \in 1..Len(attempted) : ~attempted[i].result.success }

\* the warnings of a result that say a file failed to parse
FailureWarnings(res) ==
    { k \in 1..Len(res.warnings) : res.warnings[k].kind = "Failed to parse" }

\* a parseFiles call has just returned
ParseFilesReturned ==
    ~batch.active /\ pc = "idle" /\ op.name \in { "combine", "parseFilesReturn" }

\* C19: parseFiles(files, continueOnError) returns one combined result whose
\* lines-processed, exclusions-parsed and per-kind counts are the sums over the
\* files attempted; with continueOnError = false the first failing file ends
\* the batch with success = false and an error message naming that file, and
\* no later file is parsed; with continueOnError = true every file is
\* attempted and each failing file adds one warning naming it.
C19_BatchParsing ==
    ParseFilesReturned =>
        LET tried == batch.attempted
            n == Len(tried)
        IN  /\ ret = batch.combinedResult
            /\ n <= Len(batch.filenames)
            /\ \A i \in 1..n : tried[i].file = batch.filenames[i]
            /\ ret.linesProcessed = SumOfResults(tried, LAMBDA r : r.linesProcessed)
            /\ ret.exclusionsParsed = SumOfResults(tried, LAMBDA r : r.exclusionsParsed)
            /\ \A t \in { "BLOCK", "TOGGLE", "FSM", "CONDITION" } :
                 ret.exclusionCounts[t] = SumOfResults(tried, LAMBDA r : r.exclusionCounts[t])
            /\ ~batch.continueOnError =>
                 IF FailedFiles(tried) # { }
                 THEN /\ FailedFiles(tried) = { n }
                      /\ ~ret.success
                      /\ ret.errorMessage.kind = "Failed to parse"
                      /\ ret.errorMessage.text.file = batch.filenames[n]
                 ELSE n = Len(batch.filenames) /\ ret.success
            /\ batch.continueOnError =>
                 /\ n = Len(batch.filenames)
                 /\ ret.success
                 /\ \A f \in { F_Gone, F_Doc, F_Huge } :
                      Cardinality({ k \in FailureWarnings(ret) : ret.warnings[k].text.file = f })
                         = Cardinality({ i \in FailedFiles(tried) : tried[i].file = f })

\* a batch of two files has stopped at its first file, which failed, and left
\* the second one alone
C19_Witness ==
    /\ ParseFilesReturned
    /\ ~batch.continueOnError
    /\ Len(batch.filenames) = 2
    /\ Len(batch.attempted) = 1
    /\ batch.attempted[1].result.linesProcessed > 0
    /\ ~ret.success

(***************************************************************************)
(* Quoted fields                                                           *)
(***************************************************************************)

\* the 0-based positions at or after p where a line holds a double quote
QuotesFrom(line, p) == { i \in p..(Len(line) - 1) : line[i + 1] = QUOTE }

\* the text between the first double quote at or after p and the next one,
\* with the offset just past that one; empty text and the end of the line
\* when there is no such pair
QuotedAt(line, p) ==
    Let(QuotesFrom(line, p), LAMBDA quotes :
        IF Cardinality(quotes) < 2 THEN [text |-> << >>, pos |-> Len(line)]
        ELSE Let(SetMin(quotes), LAMBDA opening :
             Let(SetMin(quotes \ { opening }), LAMBDA closing :
                 [text |-> SubSeq(line, opening + 2, closing), pos |-> closing + 1])))

\* the kind of exclusion line a keyword opens and the number of quoted
\* fields the format gives that kind
ExclusionKinds ==
    { [keyword |-> K_Block, fields |-> 2], [keyword |-> K_Toggle, fields |-> 1],
      [keyword |-> K_Fsm, fields |-> 1], [keyword |-> K_Condition, fields |-> 2],
      [keyword |-> K_Transition, fields |-> 1] }

KindOfLine(line) == CHOOSE kind \in ExclusionKinds : StartsWith(line, kind.keyword)

\* an exclusion line with a quoted field missing or left open
LacksQuotedField(line) ==
    /\ \E kind \in ExclusionKinds : StartsWith(line, kind.keyword)
    /\ Cardinality(QuotesFrom(line, 0)) < 2 * KindOfLine(line).fields

\* the parser has just read such a line inside a scope
OpenLineRead ==
    /\ op.name = "parseLine"
    /\ LacksQuotedField(trim(Pool[op.arg]))
    /\ currentScope_ # << >>

\* the quoted fields, in the order of the line, of the record the current
\* scope holds for an exclusion line; << >> when it holds none
QuotedFieldsOf(line) ==
    Let(KindOfLine(line).keyword, LAMBDA keyword :
    Let(IF currentScope_ \in DOMAIN heap[data_].scopes
        THEN heap[data_].scopes[currentScope_]
        ELSE ExclusionScope(currentScope_, << >>, FALSE), LAMBDA scope :
    Let(SecondToken(line), LAMBDA key :
        IF keyword = K_Block
        THEN IF key \in DOMAIN scope.blockExclusions
             THEN << << scope.blockExclusions[key].checksum,
                        scope.blockExclusions[key].sourceCode >> >>
             ELSE << >>
        ELSE IF keyword = K_Toggle
        THEN IF ToggleAsked(line).signalName \in DOMAIN scope.toggleExclusions
             THEN << << Let(scope.toggleExclusions[ToggleAsked(line).signalName],
                            LAMBDA list : list[Len(list)].netDescription) >> >>
             ELSE << >>
        ELSE IF keyword = K_Fsm
        THEN IF key \in DOMAIN scope.fsmExclusions
             THEN << << Let(scope.fsmExclusions[key],
                            LAMBDA list : list[Len(list)].checksum) >> >>
             ELSE << >>
        ELSE IF keyword = K_Condition
        THEN IF key \in DOMAIN scope.conditionExclusions
             THEN << << scope.conditionExclusions[key].checksum,
                        scope.conditionExclusions[key].expression
                           \o scope.conditionExclusions[key].parameters >> >>
             ELSE << >>
        ELSE IF K_transition \in DOMAIN scope.fsmExclusions
             THEN << << Let(scope.fsmExclusions[K_transition],
                            LAMBDA list : list[Len(list)].transitionId) >> >>
             ELSE << >>)))

\* C20: extractQuotedString(line, p) returns the text between the first double
\* quote at or after p and the next double quote, with the offset just past
\* that closing quote, and empty text with the end-of-line offset when there
\* is no such pair; so an exclusion line with a missing or unterminated quoted
\* field still parses successfully into a record whose field, and every later
\* quoted field, is empty.
C20_QuotedStringNeverFails ==
    /\ op.name = "parseLine" =>
         Let(trim(Pool[op.arg]), LAMBDA line :
             \A p \in 0..Len(line) : extractQuotedString(line, p) = QuotedAt(line, p))
    /\ OpenLineRead =>
         Let(trim(Pool[op.arg]), LAMBDA line :
             /\ pc = "parsing"
             /\ \A k \in 1..Len(result.warnings) :
                  result.warnings[k].line # currentLineNumber_
             /\ QuotedFieldsOf(line) # << >>
             /\ \A f \in 1..KindOfLine(line).fields :
                  f > Cardinality(QuotesFrom(line, 0)) \div 2
                     => QuotedFieldsOf(line)[1][f] = << >>)

(***************************************************************************)
(* Checksum of the next scope                                              *)
(***************************************************************************)

\* is Pool[i] a scope declaration
DeclaresScope(i) ==
    StartsWith(trim(Pool[i]), K_INSTANCE) \/ StartsWith(trim(Pool[i]), K_MODULE)

\* the name a scope declaration declares
DeclaredName(i) ==
    Let(trim(Pool[i]), LAMBDA line :
        trim(SubstrFrom(line, Find(line, <<":">>, 0) + 1)))

\* the first parse of a parser has just read a scope declaration that names
\* a scope for the first time, with an earlier declaration before it and no
\* CHECKSUM: line since that one
BareDeclarationRead ==
    /\ op.name = "parseLine"
    /\ linesRead = Len(consumed)
    /\ DeclaresScope(op.arg)
    /\ \A j \in 1..(Len(consumed) - 1) :
         DeclaresScope(consumed[j]) => DeclaredName(consumed[j]) # DeclaredName(op.arg)
    /\ \E j \in 1..(Len(consumed) - 1) :
         /\ DeclaresScope(consumed[j])
         /\ \A k \in (j + 1)..(Len(consumed) - 1) :
              ~StartsWith(trim(Pool[consumed[k]]), K_CHECKSUM)

\* C21: a CHECKSUM: line supplies the checksum of the scope created by the
\* next INSTANCE:/MODULE: line only: a scope declared with no CHECKSUM: line
\* between it and the preceding scope declaration is created with an empty
\* checksum, never with the checksum of an earlier scope.
C21_ChecksumForNextScopeOnly ==
    BareDeclarationRead =>
        /\ DeclaredName(op.arg) \in DOMAIN heap[data_].scopes
        /\ heap[data_].scopes[DeclaredName(op.arg)].checksum = << >>

(***************************************************************************)
(* Toggle bit index                                                        *)
(***************************************************************************)

\* a line without its first run of non-space characters
AfterToken(line) ==
    Let(TokenStart(line, 0), LAMBDA s1 :
        IF s1 = NPOS THEN << >> ELSE SubstrFrom(line, TokenEnd(line, s1)))

\* the first run of non-space characters of a line, or << >>
FirstToken(line) ==
    Let(TokenStart(line, 0), LAMBDA s1 :
        IF s1 = NPOS THEN << >> ELSE Substr(line, s1, TokenEnd(line, s1) - s1))

\* the text of a Toggle line after the keyword and the directional token
AfterDirection(line) ==
    IF SecondToken(line) \in { <<"0", "t", "o", "1">>, <<"1", "t", "o", "0">> }
    THEN AfterToken(AfterToken(line))
    ELSE AfterToken(line)

\* is a token a bracketed integer [<digits>]
IsBracketedInteger(token) ==
    /\ Len(token) >= 3
    /\ token[1] = "[" /\ token[Len(token)] = "]"
    /\ \A i \in 2..(Len(token) - 1) : IsDigit(token[i])

\* the signal name and the bit index a Toggle line of the form
\* "Toggle [0to1|1to0] <signal> [<n>] .." or "Toggle [0to1|1to0] <signal> "<desc>""
\* asks for; asked is FALSE for a line of another form
BitAsked(line) ==
    Let(FirstToken(AfterDirection(line)), LAMBDA signal :
    Let(FirstToken(AfterToken(AfterDirection(line))), LAMBDA next :
        IF signal = << >> \/ \E i \in 1..Len(signal) : signal[i] \in { "[", QUOTE }
        THEN [asked |-> FALSE, signalName |-> signal, bitIndex |-> << >>]
        ELSE IF IsBracketedInteger(next)
        THEN [asked |-> TRUE, signalName |-> signal,
              bitIndex |-> << DigitsValue(SubSeq(next, 2, Len(next) - 1), 0) >>]
        ELSE IF next # << >> /\ next[1] = QUOTE
        THEN [asked |-> TRUE, signalName |-> signal, bitIndex |-> << >>]
        ELSE [asked |-> FALSE, signalName |-> signal, bitIndex |-> << >>]))

\* C22: a Toggle line of the form Toggle [0to1|1to0] <signal> [<n>] "<desc>"
\* yields a record with signalName = <signal> and bitIndex = n; a line with no
\* bracket between the signal and the quoted description yields an absent
\* bitIndex; and a toggle record with a bit index written by the writer
\* re-parses with the same signalName and bitIndex.
C22_ToggleBitIndex ==
    /\ (ToggleLineRead /\ BitAsked(trim(Pool[op.arg])).asked) =>
         Let(BitAsked(trim(Pool[op.arg])), LAMBDA asked :
             /\ currentScope_ \in DOMAIN heap[data_].scopes
             /\ asked.signalName \in DOMAIN heap[data_].scopes[currentScope_].toggleExclusions
             /\ LastToggle(asked.signalName).signalName = asked.signalName
             /\ LastToggle(asked.signalName).bitIndex = asked.bitIndex)
    /\ op.name = "parseWritten" =>
         \A n \in DOMAIN heap[data_].scopes :
           \A k \in DOMAIN heap[data_].scopes[n].toggleExclusions :
             \A i \in 1..Len(heap[data_].scopes[n].toggleExclusions[k]) :
               Let(heap[data_].scopes[n].toggleExclusions[k][i], LAMBDA toggle :
                   toggle.bitIndex # << >> =>
                     /\ n \in DOMAIN answer.st.data.scopes
                     /\ \E k2 \in DOMAIN answer.st.data.scopes[n].toggleExclusions :
                          \E j \in 1..Len(answer.st.data.scopes[n].toggleExclusions[k2]) :
                            Let(answer.st.data.scopes[n].toggleExclusions[k2][j],
                                LAMBDA again :
                                    /\ again.signalName = toggle.signalName
                                    /\ again.bitIndex = toggle.bitIndex))

(***************************************************************************)
(* Classification by the leading keyword                                   *)
(***************************************************************************)

\* the four metadata strings of a database that header fields set
Metadata(data) ==
    << data.generatedBy, data.formatVersion, data.generationDate, data.exclusionMode >>

\* a line that begins with the keyword of a header field
BeginsHeaderField(line) ==
    \E keyword \in { K_GeneratedBy, K_FormatVersion, K_Date, K_ExclMode } :
        StartsWith(line, keyword)

\* a line that begins with the keyword of an exclusion
BeginsExclusion(line) ==
    \E keyword \in { K_Block, K_Toggle, K_Fsm, K_Condition, K_Transition } :
        StartsWith(line, keyword)

\* the text of an ANNOTATION: "<text>" line
AnnotationText(line) ==
    Let({ i \in 1..Len(line) : line[i] = QUOTE }, LAMBDA q :
        SubSeq(line, SetMin(q) + 1, SetMax(q) - 1))

\* C23: each keyword classifier matches on the line's leading keyword: inside
\* a scope, every line beginning with Block, Toggle, Fsm, Condition,
\* Transition or ANNOTATION: produces its exclusion record or pending
\* annotation whatever text its quoted fields contain, and only a
\* header-field line (Generated By User:, Format Version:, Date:, ExclMode:)
\* changes the database metadata.
C23_LeadingKeywordDecides ==
    [][ (pc = "parsing" /\ op'.name = "parseLine" /\ currentScope_ # << >>) =>
          Let(trim(Pool[op'.arg]), LAMBDA line :
              /\ BeginsExclusion(line) =>
                   /\ result'.exclusionsParsed = result.exclusionsParsed + 1
                   /\ currentScope_ \in DOMAIN heap'[data_].scopes
                   /\ StartsWith(line, K_Block) =>
                        SecondToken(line)
                           \in DOMAIN heap'[data_].scopes[currentScope_].blockExclusions
              /\ StartsWith(line, K_ANNOTATION) =>
                   pendingAnnotation_' = AnnotationText(line)
              /\ Metadata(heap'[data_]) # Metadata(heap[data_]) => BeginsHeaderField(line))
      ]_stepVars

(***************************************************************************)
(* Session state of a parse call                                           *)
(***************************************************************************)

\* a parse call has begun and has read no line yet
ParseCallBegun ==
    /\ pc = "parsing"
    /\ op.name \in { "parseFile", "parseString", "parseStream" }

\* C24: parser session state is reset at the start of every parse call:
\* parseFile, parseString and parseStream each begin with an empty current
\* scope, empty buffered checksum, empty pending annotation and line number 0,
\* so no scope, checksum or annotation left by an earlier call decides where a
\* later call's exclusions go, and reported line numbers count from the first
\* line of the current input.
C24_SessionResetPerCall ==
    /\ ParseCallBegun =>
         /\ currentScope_ = << >>
         /\ currentChecksum_ = << >>
         /\ pendingAnnotation_ = << >>
         /\ currentLineNumber_ = 0
    /\ op.name = "parseLine" =>
         /\ currentLineNumber_ = Len(consumed)
         /\ \A k \in 1..Len(result.warnings) : result.warnings[k].line <= Len(consumed)

(***************************************************************************)
(* Round trip of the file metadata                                         *)
(***************************************************************************)

\* C25: for a database whose generator, format version, generation date and
\* mode strings are non-empty, writing it with header comments enabled and
\* parsing the text with a fresh parser gives a database with the same four
\* metadata strings.
C25_MetadataRoundTrip ==
    (/\ op.name = "parseWritten"
     /\ \A i \in 1..4 : Metadata(heap[data_])[i] # << >>) =>
        /\ answer.result.success
        /\ Metadata(answer.st.data) = Metadata(heap[data_])

(***************************************************************************)
(* Manager emptiness                                                       *)
(***************************************************************************)

\* a database that carries file metadata and no scope
MetadataOnly(data) ==
    /\ data.fileName # << >>
    /\ \A i \in 1..4 : Metadata(data)[i] # << >>
    /\ DOMAIN data.scopes = { }

\* C26: right after setData with a database that carries file metadata (file
\* name, generator, version, date, mode) but to which no scope has been added
\* yet, isEmpty() is false; after clear() isEmpty() is true.
C26_ManagerEmptiness ==
    [][ op'.name = "isEmpty" =>
          /\ (op.name = "managerSetData" /\ MetadataOnly(heap[mgrData])) => answer' = FALSE
          /\ op.name = "managerClear" => answer' = TRUE
      ]_stepVars

(***************************************************************************)
(* Counts of the result and of the database                                *)
(***************************************************************************)

\* the lines the current parse has read, trimmed
LinesRead == [k \in 1..Len(consumed) |-> trim(Pool[consumed[k]])]

\* the positions of the exclusion lines among the lines read
ExclusionLines ==
    { k \in 1..Len(consumed) :
        LineKind(LinesRead[k]) \in { "BLOCK", "TOGGLE", "FSM", "CONDITION" } }

\* the positions of the lines read that stand after a scope declaration
InsideScope ==
    { k \in 1..Len(consumed) : \E j \in 1..(k - 1) : LineKind(LinesRead[j]) = "SCOPE" }

\* two Block lines, or two Condition lines, of one scope carry the same id
IdRepeats ==
    \E j, k \in ExclusionLines \cap InsideScope :
        /\ j < k
        /\ LineKind(LinesRead[j]) \in { "BLOCK", "CONDITION" }
        /\ LineKind(LinesRead[j]) = LineKind(LinesRead[k])
        /\ SecondToken(LinesRead[j]) = SecondToken(LinesRead[k])
        /\ ScopeOfLine(LinesRead, j) = ScopeOfLine(LinesRead, k)

\* the parse has read a line or has ended
ParseUnderWay == op.name \in { "parseLine", "parseEnd" }

\* C27: after a parse into a fresh database, the database's total exclusion
\* count (and each per-kind count) is at most the ParseResult's
\* exclusionsParsed (per-kind count), and the two are equal when every
\* exclusion line comes after a scope declaration and no Block or Condition id
\* repeats within a scope; exclusion lines met before any scope declaration
\* are counted in the result but stored nowhere.
C27_CountsOfResultAndDatabase ==
    ParseUnderWay =>
        Let(getExclusionCountsByType(heap[data_]), LAMBDA stored :
            /\ getTotalExclusionCount(heap[data_]) <= result.exclusionsParsed
            /\ \A kind \in DOMAIN stored : stored[kind] <= result.exclusionCounts[kind]
            /\ (ExclusionLines \subseteq InsideScope /\ ~IdRepeats) =>
                 /\ getTotalExclusionCount(heap[data_]) = result.exclusionsParsed
                 /\ \A kind \in DOMAIN stored : stored[kind] = result.exclusionCounts[kind]
            /\ result.exclusionsParsed = Cardinality(ExclusionLines)
            /\ InsideScope = { } => getTotalExclusionCount(heap[data_]) = 0
            /\ getTotalExclusionCount(heap[data_])
                  <= Cardinality(ExclusionLines \cap InsideScope))

\* a parse has ended that met a Block line before any scope declaration and a
\* Toggle line after one: two exclusions counted, one stored
C27_Witness ==
    /\ op.name = "parseEnd"
    /\ ret.success
    /\ ret.exclusionsParsed = 2
    /\ getTotalExclusionCount(heap[data_]) = 1
    /\ Len(consumed) = 3
    /\ LineKind(LinesRead[1]) = "BLOCK"
    /\ LineKind(LinesRead[3]) = "TOGGLE"

(***************************************************************************)
(* Key consistency                                                         *)
(***************************************************************************)

\* every record of every list of a map of lists carries, in the field
\* Name(record), the key of its list
ListsKeyed(m, Name(_)) ==
    \A k \in DOMAIN m : \A i \in 1..Len(m[k]) : Name(m[k][i]) = k

\* every scope, block, condition and listed record of a database is stored
\* under its own name or id
KeysConsistent(data) ==
    \A n \in DOMAIN data.scopes :
        Let(data.scopes[n], LAMBDA scope :
            /\ scope.scopeName = n
            /\ \A k \in DOMAIN scope.blockExclusions : scope.blockExclusions[k].blockId = k
            /\ \A k \in DOMAIN scope.conditionExclusions :
                 scope.conditionExclusions[k].conditionId = k
            /\ ListsKeyed(scope.toggleExclusions, LAMBDA e : e.signalName)
            /\ ListsKeyed(scope.fsmExclusions, LAMBDA e : e.fsmName)
            /\ \A k \in DOMAIN scope.fsmExclusions :
                 \A i \in 1..Len(scope.fsmExclusions[k]) :
                    scope.fsmExclusions[k][i].isTransition => k = K_transition)

PassedChecks(attempted) ==
    { i \in 1..Len(attempted) :
        attempted[i].result.errorMessage.kind
            \notin { "File does not exist", "File too large", "Cannot open file" } }

\* the scope names the lines of one file declare
DeclaredIn(lines) ==
    { DeclaredName(lines[k]) : k \in { j \in 1..Len(lines) : DeclaresScope(lines[j]) } }

\* the Block lines of one file that stand inside a scope, as (scope, id)
BlocksIn(lines) ==
    { << DeclaredName(lines[SetMax({ j \in 1..k : DeclaresScope(lines[j]) })]),
         SecondToken(trim(Pool[lines[k]])) >> :
        k \in { j \in 1..Len(lines) :
                  /\ StartsWith(trim(Pool[lines[j]]), K_Block)
                  /\ \E d \in 1..j : DeclaresScope(lines[d]) } }

\* the blocks a database holds, as (scope, id)
BlocksOf(data) ==
    UNION { { << n, k >> : k \in DOMAIN data.scopes[n].blockExclusions } :
              n \in DOMAIN data.scopes }

\* C29: with mergeOnLoad disabled, every parseFile call that passes the
\* existence, size and open checks replaces the parser's database with a fresh
\* one, so after parseFiles over several readable files getData() holds only
\* the scopes of the last such file while the combined result counts the
\* exclusions of all files; with mergeOnLoad enabled the database accumulates
\* the scopes and exclusions of every file parsed.
C29_MergeOnLoad ==
    (ParseFilesReturned /\ PassedChecks(batch.attempted) # { }) =>
        Let(batch.attempted, LAMBDA tried :
        Let(tried[SetMax(PassedChecks(tried))], LAMBDA last :
            /\ ret.exclusionsParsed = SumOfResults(tried, LAMBDA r : r.exclusionsParsed)
            /\ heap[data_].fileName = last.file
            /\ ~config_.mergeOnLoad =>
                 /\ DOMAIN heap[data_].scopes = DeclaredIn(last.lines)
                 /\ BlocksOf(heap[data_]) = BlocksIn(last.lines)
            /\ config_.mergeOnLoad =>
                 /\ DOMAIN heap[data_].scopes
                       = UNION { DeclaredIn(tried[i].lines) : i \in PassedChecks(tried) }
                 /\ BlocksOf(heap[data_])
                       = UNION { BlocksIn(tried[i].lines) : i \in PassedChecks(tried) }))

\* without mergeOnLoad a batch of two readable files has returned: the first
\* declared top and held a Block, the second declared u1 only; the database
\* holds u1 alone and the result counts the Block
C29_Witness ==
    /\ ParseFilesReturned
    /\ ~config_.mergeOnLoad
    /\ Len(batch.attempted) = 2
    /\ PassedChecks(batch.attempted) = { 1, 2 }
    /\ BlocksIn(batch.attempted[1].lines) # { }
    /\ DOMAIN heap[data_].scopes = { <<"u", "1">> }
    /\ ret.exclusionsParsed = 1

(***************************************************************************)
(* The parser and its manager share one database                           *)
(***************************************************************************)

\* C30: after any sequence of parser operations (construction, parseFile,
\* parseString, parseStream, setData including setData(null), clear),
\* parser.getData() and parser.getDataManager().getData() are one and the same
\* non-null database object, so manager queries always see what the last parse
\* produced.
C30_OneDatabase ==
    /\ data_ \in ObjIds
    /\ mgrData = data_

\* setData(null) was answered with a new database, a later parse has put a
\* scope into it, and the manager's database is the one that holds the scope
C30_Witness ==
    /\ pc = "idle"
    /\ op.name \in { "parseLine", "parseEnd" }
    /\ data_ \notin { "d1", held }
    /\ DOMAIN heap[mgrData].scopes # { }
    /\ calls > 0

====
